---- MODULE Spec2Model ----
(***************************************************************************)
(* AEM component generator: the configuration form, its validation, the    *)
(* five template renderers and the naming helpers, as a state machine.     *)
(*                                                                         *)
(* Strings the code inspects character by character (names, identifiers,   *)
(* field values) are sequences of one-character strings.  A generated      *)
(* artifact is a sequence of tokens [k |-> kind, v |-> characters]: one    *)
(* token per interpolated expression or structural element of the template *)
(* literal, in source order; the fixed prose between them is elided.       *)
(***************************************************************************)
EXTENDS Integers, Sequences, FiniteSets, TLC

\* ------------------------------------------------------------------------
\* Characters
\* ------------------------------------------------------------------------
LowerSeq == <<"a","b","c","d","e","f","g","h","i","j","k","l","m",
              "n","o","p","q","r","s","t","u","v","w","x","y","z">>
UpperSeq == <<"A","B","C","D","E","F","G","H","I","J","K","L","M",
              "N","O","P","Q","R","S","T","U","V","W","X","Y","Z">>
LowerChars == {LowerSeq[i] : i \in DOMAIN LowerSeq}
UpperChars == {UpperSeq[i] : i \in DOMAIN UpperSeq}
DigitChars == {"0","1","2","3","4","5","6","7","8","9"}
AlnumChars == LowerChars \cup UpperChars \cup DigitChars
\* the characters JavaScript's \s and String.prototype.trim treat as blank
SpaceChars == {" ", "\t", "\n"}

toLowerCaseChar(c) ==
    IF c \in UpperChars
    THEN LowerSeq[CHOOSE i \in DOMAIN UpperSeq : UpperSeq[i] = c]
    ELSE c
toUpperCaseChar(c) ==
    IF c \in LowerChars
    THEN UpperSeq[CHOOSE i \in DOMAIN LowerSeq : LowerSeq[i] = c]
    ELSE c

\* ------------------------------------------------------------------------
\* String.prototype methods used by the code
\* ------------------------------------------------------------------------
toLowerCase(s) == [i \in 1..Len(s) |-> toLowerCaseChar(s[i])]
toUpperCase(s) == [i \in 1..Len(s) |-> toUpperCaseChar(s[i])]

\* s.replace(/[^a-zA-Z0-9]/g, r)
ReplaceNonAlnum(s, r) == [i \in 1..Len(s) |-> IF s[i] \in AlnumChars THEN s[i] ELSE r]

RECURSIVE DropWhileIn(_, _)
DropWhileIn(s, cls) ==
    IF s # <<>> /\ Head(s) \in cls THEN DropWhileIn(Tail(s), cls) ELSE s

\* s.replace(/X+/g, r) where X is the character class cls
RECURSIVE CollapseRuns(_, _, _)
CollapseRuns(s, cls, r) ==
    IF s = <<>> THEN <<>>
    ELSE IF Head(s) \in cls
         THEN <<r>> \o CollapseRuns(DropWhileIn(Tail(s), cls), cls, r)
         ELSE <<Head(s)>> \o CollapseRuns(Tail(s), cls, r)

RECURSIVE DropTrailingIn(_, _)
DropTrailingIn(s, cls) ==
    IF s # <<>> /\ s[Len(s)] \in cls
    THEN DropTrailingIn(SubSeq(s, 1, Len(s) - 1), cls)
    ELSE s

\* s.trim()
trim(s) == DropTrailingIn(DropWhileIn(s, SpaceChars), SpaceChars)

\* s.replace(/^c|c$/g, ''): at most one c removed at each end
StripEnds(s, c) ==
    LET a == IF s # <<>> /\ Head(s) = c THEN Tail(s) ELSE s
    IN  IF a # <<>> /\ a[Len(a)] = c THEN SubSeq(a, 1, Len(a) - 1) ELSE a

\* s.split(' '): never empty, ''.split(' ') is ['']
RECURSIVE split(_, _)
split(s, c) ==
    IF \A i \in 1..Len(s) : s[i] # c THEN <<s>>
    ELSE LET i == CHOOSE j \in 1..Len(s) : s[j] = c /\ \A h \in 1..(j - 1) : s[h] # c
         IN  <<SubSeq(s, 1, i - 1)>> \o split(SubSeq(s, i + 1, Len(s)), c)

\* words.join('')
RECURSIVE join(_)
join(words) == IF words = <<>> THEN <<>> ELSE Head(words) \o join(Tail(words))

\* word.charAt(0).toUpperCase() + word.slice(1).toLowerCase()
TitleCase(word) ==
    IF word = <<>> THEN <<>>
    ELSE <<toUpperCaseChar(word[1])>> \o toLowerCase(Tail(word))


\* ------------------------------------------------------------------------
\* Naming conventions
\* ------------------------------------------------------------------------
\* the map that title-cases every word but the first, which it leaves as typed
CamelWordsKeepCase(words) ==
    [i \in 1..Len(words) |-> IF i = 1 THEN words[i] ELSE TitleCase(words[i])]

\* the .map((word, index) => ...) of createNamingConventions
CamelWords(words) ==
    [i \in 1..Len(words) |-> IF i = 1 THEN toLowerCase(words[i]) ELSE TitleCase(words[i])]

camelCaseOf(str) ==
    join(CamelWords(split(trim(CollapseRuns(ReplaceNonAlnum(str, " "), SpaceChars, " ")), " ")))

\* the kebab chain without its last replace
kebabCaseOfUnstripped(str) ==
    toLowerCase(CollapseRuns(ReplaceNonAlnum(str, "-"), {"-"}, "-"))

\* the kebab chain with the end strip done before the runs are collapsed
kebabCaseOfStripFirst(str) ==
    toLowerCase(CollapseRuns(StripEnds(ReplaceNonAlnum(str, "-"), "-"), {"-"}, "-"))

kebabCaseOf(str) ==
    StripEnds(toLowerCase(CollapseRuns(ReplaceNonAlnum(str, "-"), {"-"}, "-")), "-")

\* the snake chain without its last replace
snakeCaseOfUnstripped(str) ==
    toLowerCase(CollapseRuns(ReplaceNonAlnum(str, "_"), {"_"}, "_"))

snakeCaseOf(str) ==
    StripEnds(toLowerCase(CollapseRuns(ReplaceNonAlnum(str, "_"), {"_"}, "_")), "_")

createNamingConventions(str) ==
    LET camelCase == camelCaseOf(str)
        snakeCase == snakeCaseOf(str)
    IN  [camelCase    |-> camelCase,
         pascalCase   |-> IF camelCase = <<>> THEN <<>>
                          ELSE <<toUpperCaseChar(camelCase[1])>> \o Tail(camelCase),
         kebabCase    |-> kebabCaseOf(str),
         snakeCase    |-> snakeCase,
         constantCase |-> toUpperCase(snakeCase),
         original     |-> str]

\* ComponentGenerator's own helpers
getKebabCaseName(name) ==
    StripEnds(toLowerCase(CollapseRuns(ReplaceNonAlnum(name, "-"), {"-"}, "-")), "-")

\* the helper with word.slice(1) left as typed
getPascalCaseNameKeepTail(name) ==
    LET words == split(trim(CollapseRuns(ReplaceNonAlnum(name, " "), SpaceChars, " ")), " ")
    IN  join([i \in 1..Len(words) |->
                IF words[i] = <<>> THEN <<>>
                ELSE <<toUpperCaseChar(words[i][1])>> \o Tail(words[i])])

getPascalCaseName(name) ==
    LET words == split(trim(CollapseRuns(ReplaceNonAlnum(name, " "), SpaceChars, " ")), " ")
    IN  join([i \in 1..Len(words) |-> TitleCase(words[i])])

getCamelCaseName(name) ==
    LET pascal == getPascalCaseName(name)
    IN  IF pascal = <<>> THEN <<>> ELSE <<toLowerCaseChar(pascal[1])>> \o Tail(pascal)

\* ------------------------------------------------------------------------
\* The three identifier patterns
\* ------------------------------------------------------------------------
\* the name pattern without its anchor on a leading letter
TestComponentNameAnyStart(s) ==
    /\ s # <<>>
    /\ \A i \in 1..Len(s) : s[i] \in AlnumChars \cup SpaceChars

\* /^[a-zA-Z][a-zA-Z0-9\s]*$/.test(s)
TestComponentName(s) ==
    /\ s # <<>>
    /\ s[1] \in LowerChars \cup UpperChars
    /\ \A i \in 2..Len(s) : s[i] \in AlnumChars \cup SpaceChars

\* /^[a-z][a-z0-9]*(\.[a-z][a-z0-9]*)*$/.test(s), as the automaton of the
\* pattern: atStart is "a segment's first character is expected"
RECURSIVE PackageRun(_, _)
PackageRun(s, atStart) ==
    IF s = <<>> THEN ~atStart
    ELSE IF atStart THEN Head(s) \in LowerChars /\ PackageRun(Tail(s), FALSE)
    ELSE IF Head(s) = "." THEN PackageRun(Tail(s), TRUE)
    ELSE Head(s) \in LowerChars \cup DigitChars /\ PackageRun(Tail(s), FALSE)

TestPackageName(s) == PackageRun(s, TRUE)

\* /^[a-z][a-z0-9]*$/.test(s)
TestProjectName(s) ==
    /\ s # <<>>
    /\ s[1] \in LowerChars
    /\ \A i \in 2..Len(s) : s[i] \in LowerChars \cup DigitChars

\* !value || !value.trim()
IsBlank(s) == s = <<>> \/ trim(s) = <<>>

\* ------------------------------------------------------------------------
\* Component type registry
\* ------------------------------------------------------------------------
s_alignment == <<"a","l","i","g","n","m","e","n","t">>
s_alt == <<"a","l","t">>
s_backgroundColor == <<"b","a","c","k","g","r","o","u","n","d","C","o","l","o","r">>
s_backgroundImage == <<"b","a","c","k","g","r","o","u","n","d","I","m","a","g","e">>
s_backgroundImageSrc == <<"b","a","c","k","g","r","o","u","n","d","I","m","a","g","e","S","r","c">>
s_caption == <<"c","a","p","t","i","o","n">>
s_center == <<"c","e","n","t","e","r">>
s_containerType == <<"c","o","n","t","a","i","n","e","r","T","y","p","e">>
s_ctaText == <<"c","t","a","T","e","x","t">>
s_ctaUrl == <<"c","t","a","U","r","l">>
s_default == <<"d","e","f","a","u","l","t">>
s_description == <<"d","e","s","c","r","i","p","t","i","o","n">>
s_fixed == <<"f","i","x","e","d">>
s_fluid == <<"f","l","u","i","d">>
s_get == <<"g","e","t">>
s_getBackgroundColor == <<"g","e","t","B","a","c","k","g","r","o","u","n","d","C","o","l","o","r">>
s_getBackgroundImage == <<"g","e","t","B","a","c","k","g","r","o","u","n","d","I","m","a","g","e">>
s_getBackgroundImageSrc == <<"g","e","t","B","a","c","k","g","r","o","u","n","d","I","m","a","g","e","S","r","c">>
s_getImage == <<"g","e","t","I","m","a","g","e">>
s_getImageSrc == <<"g","e","t","I","m","a","g","e","S","r","c">>
s_getInlineStyles == <<"g","e","t","I","n","l","i","n","e","S","t","y","l","e","s">>
s_getUrl == <<"g","e","t","U","r","l">>
s_hasImage == <<"h","a","s","I","m","a","g","e">>
s_image == <<"i","m","a","g","e">>
s_imageAlt == <<"i","m","a","g","e","A","l","t">>
s_imageSrc == <<"i","m","a","g","e","S","r","c">>
s_inlineStyles == <<"i","n","l","i","n","e","S","t","y","l","e","s">>
s_is == <<"i","s">>
s_isEmpty == <<"i","s","E","m","p","t","y">>
s_isExternalLink == <<"i","s","E","x","t","e","r","n","a","l","L","i","n","k">>
s_large == <<"l","a","r","g","e">>
s_left == <<"l","e","f","t">>
s_link == <<"l","i","n","k">>
s_linkUrl == <<"l","i","n","k","U","r","l">>
s_medium == <<"m","e","d","i","u","m">>
s_none == <<"n","o","n","e">>
s_outline == <<"o","u","t","l","i","n","e">>
s_padding == <<"p","a","d","d","i","n","g">>
s_primary == <<"p","r","i","m","a","r","y">>
s_right == <<"r","i","g","h","t">>
s_secondary == <<"s","e","c","o","n","d","a","r","y">>
s_size == <<"s","i","z","e">>
s_small == <<"s","m","a","l","l">>
s_style == <<"s","t","y","l","e">>
s_subtitle == <<"s","u","b","t","i","t","l","e">>
s_text == <<"t","e","x","t">>
s_title == <<"t","i","t","l","e">>
s_url == <<"u","r","l">>

\* AEMTemplates.componentTypes.  A property the source leaves out (required,
\* options, default) is the falsy value the code's tests treat it as.
RegisteredTypes ==
       ("text-component" :> [
        title |-> "Text Component",
        description |-> "A flexible text component with rich text editing capabilities",
        category |-> "Content",
        fields |-> <<
            [name |-> s_title, type |-> "text", label |-> "Title", required |-> FALSE,
             options |-> <<>>, default |-> <<>>],
            [name |-> s_text, type |-> "richtext", label |-> "Rich Text Content", required |-> TRUE,
             options |-> <<>>, default |-> <<>>],
            [name |-> s_alignment, type |-> "select", label |-> "Text Alignment", required |-> FALSE,
             options |-> <<s_left, s_center, s_right>>, default |-> s_left]
        >>])
    @@ ("image-component" :> [
        title |-> "Image Component",
        description |-> "Responsive image component with multiple format support",
        category |-> "Media",
        fields |-> <<
            [name |-> s_image, type |-> "image", label |-> "Image", required |-> TRUE,
             options |-> <<>>, default |-> <<>>],
            [name |-> s_alt, type |-> "text", label |-> "Alt Text", required |-> TRUE,
             options |-> <<>>, default |-> <<>>],
            [name |-> s_caption, type |-> "text", label |-> "Caption", required |-> FALSE,
             options |-> <<>>, default |-> <<>>],
            [name |-> s_linkUrl, type |-> "pathfield", label |-> "Link URL", required |-> FALSE,
             options |-> <<>>, default |-> <<>>]
        >>])
    @@ ("button-component" :> [
        title |-> "Button Component",
        description |-> "Customizable button with various styles and actions",
        category |-> "Interactive",
        fields |-> <<
            [name |-> s_text, type |-> "text", label |-> "Button Text", required |-> TRUE,
             options |-> <<>>, default |-> <<>>],
            [name |-> s_url, type |-> "pathfield", label |-> "URL", required |-> FALSE,
             options |-> <<>>, default |-> <<>>],
            [name |-> s_style, type |-> "select", label |-> "Button Style", required |-> FALSE,
             options |-> <<s_primary, s_secondary, s_outline>>, default |-> s_primary],
            [name |-> s_size, type |-> "select", label |-> "Size", required |-> FALSE,
             options |-> <<s_small, s_medium, s_large>>, default |-> s_medium]
        >>])
    @@ ("container-component" :> [
        title |-> "Container Component",
        description |-> "Layout container for organizing other components",
        category |-> "Layout",
        fields |-> <<
            [name |-> s_containerType, type |-> "select", label |-> "Container Type", required |-> FALSE,
             options |-> <<s_default, s_fluid, s_fixed>>, default |-> s_default],
            [name |-> s_backgroundColor, type |-> "colorfield", label |-> "Background Color", required |-> FALSE,
             options |-> <<>>, default |-> <<>>],
            [name |-> s_padding, type |-> "select", label |-> "Padding", required |-> FALSE,
             options |-> <<s_none, s_small, s_medium, s_large>>, default |-> s_medium]
        >>])
    @@ ("hero-component" :> [
        title |-> "Hero Component",
        description |-> "Eye-catching hero section with image and text overlay",
        category |-> "Content",
        fields |-> <<
            [name |-> s_backgroundImage, type |-> "image", label |-> "Background Image", required |-> TRUE,
             options |-> <<>>, default |-> <<>>],
            [name |-> s_title, type |-> "text", label |-> "Hero Title", required |-> TRUE,
             options |-> <<>>, default |-> <<>>],
            [name |-> s_subtitle, type |-> "text", label |-> "Subtitle", required |-> FALSE,
             options |-> <<>>, default |-> <<>>],
            [name |-> s_ctaText, type |-> "text", label |-> "CTA Button Text", required |-> FALSE,
             options |-> <<>>, default |-> <<>>],
            [name |-> s_ctaUrl, type |-> "pathfield", label |-> "CTA URL", required |-> FALSE,
             options |-> <<>>, default |-> <<>>]
        >>])
    @@ ("card-component" :> [
        title |-> "Card Component",
        description |-> "Versatile card component for displaying content blocks",
        category |-> "Content",
        fields |-> <<
            [name |-> s_image, type |-> "image", label |-> "Card Image", required |-> FALSE,
             options |-> <<>>, default |-> <<>>],
            [name |-> s_title, type |-> "text", label |-> "Card Title", required |-> TRUE,
             options |-> <<>>, default |-> <<>>],
            [name |-> s_description, type |-> "textarea", label |-> "Description", required |-> FALSE,
             options |-> <<>>, default |-> <<>>],
            [name |-> s_link, type |-> "pathfield", label |-> "Card Link", required |-> FALSE,
             options |-> <<>>, default |-> <<>>]
        >>])

TypeKeys == DOMAIN RegisteredTypes


\* ------------------------------------------------------------------------
\* State
\* ------------------------------------------------------------------------
VARIABLES
    componentTypes,   \* AEMTemplates.componentTypes
    step,             \* currentState.step
    componentType,    \* currentState.componentType; currentState.componentConfig
                      \* is the registry entry of that key (the same object)
    formData,         \* currentState.formData
    generatedCode,    \* currentState.generatedCode
    form,             \* the configuration form in the container, if any
    timer,            \* a debounced form-change callback of the form is pending
    detached,         \* forms removed from the page whose callback is still pending
    loading,          \* loading indicator shown, generate button disabled
    previewShown,     \* the preview container is displayed
    now,              \* the clock read by new Date(): <<day, ms within the day>>
    last,             \* what the latest handler did (validation, rendering, notices)
    codeRequest,      \* ghost: the request and clock reading generatedCode came from
    edits,            \* ghost: number of input events so far
    args, result,     \* argument and outcome of a directly called library function
    immediate,        \* debounce: the wrapper's third argument
    timeout,          \* debounce: the wrapper's timer handle, if any
    timers,           \* the page's pending setTimeout callbacks
    elapsed,          \* time since page load, in units of which wait is Wait
    calls,            \* ghost: the calls of the debounced function so far, each with
                      \* whether a timer was pending when it arrived
    invocations       \* ghost: the invocations of the wrapped function so far

debounceVars == <<immediate, timeout, timers, elapsed, calls, invocations>>

vars == <<componentTypes, step, componentType, formData, generatedCode, form,
          timer, detached, loading, previewShown, now, last,
          codeRequest, edits, args, result, debounceVars>>

\* null / a value
None == <<>>
Some(x) == <<x>>
NoType == "null"

\* ------------------------------------------------------------------------
\* Tokens of generated text
\* ------------------------------------------------------------------------
Tok(kind, chars) == [k |-> kind, v |-> chars]
Lit(s) == Tok("lit", <<s>>)
Placeholder(key) == Tok("placeholder", <<key>>)

\* new Date().toISOString() / new Date().toLocaleDateString()
toISOString == <<ToString(now[1]), ToString(now[2])>>
toLocaleDateString == <<ToString(now[1])>>

Threw == [threw |-> TRUE, text |-> <<>>]
Returned(text) == [threw |-> FALSE, text |-> text]

RECURSIVE Flatten(_)
Flatten(seqs) == IF seqs = <<>> THEN <<>> ELSE Head(seqs) \o Flatten(Tail(seqs))

\* a comment block that tells a first rendering from a later one
HeaderOnceGenerated(config, naming) ==
    << Tok("title", <<config.title>>), Tok("kebab", naming.kebabCase),
       Tok("description", <<IF step = "generation" THEN "regenerated" ELSE config.description>>),
       Tok("generated", toISOString) >>

\* the comment block every generator starts with
Header(config, naming) ==
    << Tok("title", <<config.title>>), Tok("kebab", naming.kebabCase),
       Tok("description", <<config.description>>), Tok("generated", toISOString) >>

\* ------------------------------------------------------------------------
\* AEMTemplates.generateHTL
\* ------------------------------------------------------------------------
\* one element of the markup: its class suffix and the model properties it reads
Element(naming, suffix, refs) ==
    <<Tok("kebab", naming.kebabCase), Tok("element", <<suffix>>)>>
        \o [i \in 1..Len(refs) |-> Tok("ref", refs[i])]

HTLBody(componentType_, naming) ==
    CASE componentType_ = "text-component" ->
            Element(naming, "__title-wrapper", <<s_title>>)
         \o Element(naming, "__title", <<s_title>>)
         \o Element(naming, "__text", <<s_text, s_alignment, s_text>>)
      [] componentType_ = "image-component" ->
            Element(naming, "__image-wrapper", <<s_hasImage>>)
         \o Element(naming, "__image", <<s_imageSrc, s_alt, s_caption>>)
         \o Element(naming, "__caption", <<s_caption, s_caption>>)
      [] componentType_ = "button-component" ->
            Element(naming, "__wrapper", <<>>)
         \o Element(naming, "__button",
                    <<s_style, s_size, s_url, s_isExternalLink, s_isExternalLink, s_text>>)
      [] componentType_ = "container-component" ->
            Element(naming, "__inner", <<s_containerType, s_inlineStyles>>)
      [] componentType_ = "hero-component" ->
            Element(naming, "__background", <<s_backgroundImageSrc>>)
         \o Element(naming, "__overlay", <<>>)
         \o Element(naming, "__content-wrapper", <<>>)
         \o Element(naming, "__title", <<s_title, s_title>>)
         \o Element(naming, "__subtitle", <<s_subtitle, s_subtitle>>)
         \o Element(naming, "__cta", <<s_ctaText, s_ctaUrl>>)
         \o Element(naming, "__cta-button", <<s_ctaUrl, s_ctaText>>)
      [] componentType_ = "card-component" ->
            Element(naming, "__image-wrapper", <<s_hasImage>>)
         \o Element(naming, "__image", <<s_imageSrc, s_imageAlt>>)
         \o Element(naming, "__body", <<>>)
         \o Element(naming, "__title", <<s_title, s_title>>)
         \o Element(naming, "__description", <<s_description, s_description>>)
         \o Element(naming, "__link-wrapper", <<s_link>>)
         \o Element(naming, "__link", <<s_link, s_title>>)
      [] OTHER -> <<>>

generateHTL(componentName, componentType_, fields) ==
    LET naming == createNamingConventions(componentName) IN
    IF componentType_ \notin DOMAIN componentTypes
    THEN Threw   \* config is undefined: reading config.title throws a TypeError
    ELSE LET config == componentTypes[componentType_] IN
         Returned(
            Header(config, naming)
         \o << Tok("title", <<config.title>>),
               Tok("kebab", naming.kebabCase), Tok("element", <<"">>),
               Placeholder("componentPackage"), Tok("pascal", naming.pascalCase),
               Tok("placeholderElement", <<config.title>>), Tok("ref", s_isEmpty),
               Tok("kebab", naming.kebabCase), Tok("element", <<"__content">>),
               Tok("ref", s_isEmpty) >>
         \o HTLBody(componentType_, naming))

\* ------------------------------------------------------------------------
\* AEMTemplates.generateSlingModel
\* ------------------------------------------------------------------------
SlingIsEmpty(componentType_) ==
    CASE componentType_ = "text-component"   -> <<Tok("isBlank", s_text)>>
      [] componentType_ = "image-component"  -> <<Tok("isBlank", s_image)>>
      [] componentType_ = "button-component" -> <<Tok("isBlank", s_text)>>
      [] OTHER -> <<Lit("return false")>>

\* a getter that falls back to null whatever the kind of the field
SlingGetterNullOnly(field) ==
    LET fieldNaming == createNamingConventions(field.name)
        methodName  == s_get \o fieldNaming.pascalCase
    IN  << Tok("method", methodName), Tok("return", fieldNaming.camelCase), Lit("null") >>

SlingGetter(field) ==
    LET fieldNaming == createNamingConventions(field.name)
        methodName  == s_get \o fieldNaming.pascalCase
    IN  << Tok("method", methodName), Tok("return", fieldNaming.camelCase) >>
        \o CASE field.type = "richtext" -> <<Lit("null")>>
             [] field.type = "image"    -> <<Lit("null")>>
             [] field.type = "select"   ->
                    <<Tok("orDefault", IF field.default # <<>> THEN field.default
                                       ELSE IF field.options # <<>> THEN field.options[1]
                                       ELSE <<"undefined">>)>>
             [] OTHER -> <<Lit("null")>>

SlingHelpers(componentType_) ==
    CASE componentType_ = "image-component" ->
            << Tok("method", s_hasImage), Tok("call", s_getImage),
               Tok("method", s_getImageSrc), Tok("call", s_getImage) >>
      [] componentType_ = "button-component" ->
            << Tok("method", s_isExternalLink), Tok("call", s_getUrl) >>
      [] componentType_ = "container-component" ->
            << Tok("method", s_getInlineStyles), Tok("call", s_getBackgroundColor),
               Tok("call", s_getBackgroundColor) >>
      [] componentType_ = "hero-component" ->
            << Tok("method", s_getBackgroundImageSrc), Tok("call", s_getBackgroundImage) >>
      [] OTHER -> <<>>

generateSlingModel(componentName, componentType_, fields, packageName) ==
    LET naming == createNamingConventions(componentName) IN
    IF componentType_ \notin DOMAIN componentTypes
    THEN Threw
    ELSE LET config == componentTypes[componentType_] IN
         Returned(
            Header(config, naming)
         \o << Tok("package", packageName),
               Tok("title", <<config.title>>), Tok("title", <<config.title>>),
               Tok("pascal", naming.pascalCase), Tok("pascal", naming.pascalCase),
               Tok("class", naming.pascalCase),
               Placeholder("projectName"), Tok("kebab", naming.kebabCase) >>
         \o [i \in 1..Len(fields) |->
                Tok("member", createNamingConventions(fields[i].name).camelCase)]
         \o <<Tok("method", s_isEmpty)>> \o SlingIsEmpty(componentType_)
         \o Flatten([i \in 1..Len(fields) |-> SlingGetter(fields[i])])
         \o SlingHelpers(componentType_))

\* ------------------------------------------------------------------------
\* AEMTemplates.generateDialog / getDialogFieldType
\* ------------------------------------------------------------------------
fieldTypeMap ==
    [text |-> "textfield", textarea |-> "textarea", richtext |-> "rte",
     select |-> "select", checkbox |-> "checkbox", image |-> "fileupload",
     pathfield |-> "pathfield", colorfield |-> "colorfield",
     number |-> "numberfield", email |-> "emailfield", url |-> "urlfield"]

\* a table that maps every kind to the plain text input
getDialogFieldTypeTextOnly(fieldType) == "textfield"

getDialogFieldType(fieldType) ==
    IF fieldType \in DOMAIN fieldTypeMap THEN fieldTypeMap[fieldType] ELSE "textfield"

DialogField(field) ==
    LET fieldNaming == createNamingConventions(field.name) IN
       << Tok("widget", fieldNaming.camelCase),
          Tok("resourceType", <<getDialogFieldType(field.type)>>),
          Tok("fieldLabel", <<field.label>>),
          Tok("name", <<"./">> \o fieldNaming.camelCase) >>
    \o (IF field.required THEN <<Tok("required", <<"true">>)>> ELSE <<>>)
    \o (CASE field.type = "richtext"   -> <<Tok("attribute", <<"rtePlugins">>)>>
          [] field.type = "select"     ->
                 [i \in 1..Len(field.options) |-> Tok("option", field.options[i])]
          [] field.type = "image"      -> <<Tok("attribute", <<"allowUpload">>)>>
          [] field.type = "pathfield"  -> <<Tok("attribute", <<"rootPath">>)>>
          [] field.type = "colorfield" -> <<Tok("attribute", <<"variant">>)>>
          [] field.type = "textarea"   -> <<Tok("attribute", <<"rows">>)>>
          [] OTHER -> <<>>)
    \o <<Tok("endWidget", fieldNaming.camelCase)>>

\* an accessibility tab that has the identifier field only
AccessibilityTabIdOnly ==
    << Tok("tab", <<"accessibility">>),
       Tok("widget", <<"accessibilityId">>), Tok("resourceType", <<"textfield">>),
       Tok("name", <<"./id">>) >>

\* the tab appended after the fields' items
AccessibilityTab ==
    << Tok("tab", <<"accessibility">>),
       Tok("widget", <<"accessibilityId">>), Tok("resourceType", <<"textfield">>),
       Tok("name", <<"./id">>),
       Tok("widget", <<"ariaLabel">>), Tok("resourceType", <<"textfield">>),
       Tok("name", <<"./ariaLabel">>) >>

generateDialog(componentName, componentType_, fields) ==
    LET naming == createNamingConventions(componentName) IN
    IF componentType_ \notin DOMAIN componentTypes
    THEN Threw
    ELSE LET config == componentTypes[componentType_] IN
         Returned(
            Header(config, naming)
         \o << Tok("title", <<config.title>>), Tok("title", <<config.title>>),
               Placeholder("projectName"), Tok("kebab", naming.kebabCase),
               Tok("tab", <<"properties">>) >>
         \o Flatten([i \in 1..Len(fields) |-> DialogField(fields[i])])
         \o AccessibilityTab)

\* ------------------------------------------------------------------------
\* AEMTemplates.generateCSS
\* ------------------------------------------------------------------------
Rules(naming, suffixes) ==
    Flatten([i \in 1..Len(suffixes) |->
                <<Tok("kebab", naming.kebabCase), Tok("rule", <<suffixes[i]>>)>>])

CSSBody(componentType_) ==
    CASE componentType_ = "text-component" -> <<"__title-wrapper", "__title", "__text">>
      [] componentType_ = "image-component" -> <<"__image-wrapper", "__image", "__caption">>
      [] componentType_ = "button-component" -> <<"__wrapper", "__button">>
      [] componentType_ = "container-component" -> <<"__inner">>
      [] componentType_ = "hero-component" ->
            <<"__background", "__overlay", "__content-wrapper", "__title", "__subtitle",
              "__cta", "__cta-button">>
      [] componentType_ = "card-component" ->
            <<"", "__image-wrapper", "__image", "__body", "__title", "__description",
              "__link-wrapper", "__link">>
      [] OTHER -> <<>>

generateCSS(componentName, componentType_) ==
    LET naming == createNamingConventions(componentName) IN
    IF componentType_ \notin DOMAIN componentTypes
    THEN Threw
    ELSE LET config == componentTypes[componentType_] IN
         Returned(
            Header(config, naming)
         \o <<Tok("title", <<config.title>>)>>
         \o Rules(naming, <<"">>)
         \o <<Tok("rule", <<".cmp-placeholder">>)>>
         \o Rules(naming, <<"__content">>)
         \o Rules(naming, CSSBody(componentType_))
         \o <<Tok("media", <<"max-width: 768px">>)>> \o Rules(naming, <<"">>)
         \o <<Tok("media", <<"max-width: 480px">>)>> \o Rules(naming, <<"">>)
         \o <<Tok("media", <<"print">>)>> \o Rules(naming, <<"">>)
         \o <<Tok("rule", <<".cmp-placeholder">>)>>
         \o <<Tok("media", <<"prefers-contrast: high">>)>> \o Rules(naming, <<"">>)
         \o <<Tok("media", <<"prefers-reduced-motion: reduce">>)>> \o Rules(naming, <<"">>))

\* ------------------------------------------------------------------------
\* AEMTemplates.generateReadme
\* ------------------------------------------------------------------------
\* a row that says Yes under Required whatever the field declares
ReadmeRowAlwaysRequired(field) ==
    << Tok("rowName", field.name), Tok("rowType", <<field.type>>),
       Tok("rowRequired", <<"Yes">>), Tok("rowLabel", <<field.label>>) >>

ReadmeRow(field) ==
    << Tok("rowName", field.name), Tok("rowType", <<field.type>>),
       Tok("rowRequired", <<IF field.required THEN "Yes" ELSE "No">>),
       Tok("rowLabel", <<field.label>>) >>

generateReadme(componentName, componentType_, fields) ==
    LET naming == createNamingConventions(componentName) IN
    IF componentType_ \notin DOMAIN componentTypes
    THEN Threw
    ELSE LET config == componentTypes[componentType_] IN
         Returned(
            << Tok("title", <<config.title>>), Tok("kebab", naming.kebabCase),
               Tok("category", <<config.category>>), Tok("generated", toLocaleDateString),
               Tok("description", <<config.description>>),
               Tok("file", naming.kebabCase \o <<".html">>),
               Tok("file", naming.pascalCase \o <<"Model.java">>),
               Tok("file", <<"_cq_dialog/.content.xml">>),
               Tok("file", naming.kebabCase \o <<".scss">>),
               Tok("file", <<"README.md">>) >>
         \o Flatten([i \in 1..Len(fields) |-> ReadmeRow(fields[i])])
         \o << Tok("kebab", naming.kebabCase),
               Tok("pascal", naming.pascalCase), Tok("kebab", naming.kebabCase),
               Tok("pascal", naming.pascalCase), Tok("pascal", naming.pascalCase),
               Tok("pascal", naming.pascalCase) >>)


\* ------------------------------------------------------------------------
\* ComponentGenerator.generateComponentCode / interpolateVariables
\* ------------------------------------------------------------------------
\* content.replace(/\{\{key\}\}/g, value)
ReplaceAll(content, key, value) ==
    [i \in 1..Len(content) |->
        IF content[i] = Placeholder(key) THEN Tok("text", value) ELSE content[i]]

interpolateVariables(content, fd) ==
    ReplaceAll(ReplaceAll(ReplaceAll(ReplaceAll(ReplaceAll(ReplaceAll(content,
        "componentPackage", fd.packageName),
        "projectName", fd.projectName),
        "componentName", fd.componentName),
        "kebabCase", getKebabCaseName(fd.componentName)),
        "pascalCase", getPascalCaseName(fd.componentName)),
        "camelCase", getCamelCaseName(fd.componentName))

\* generatedCode[file] = text on a JavaScript object: a new key is appended,
\* an existing key keeps its place and takes the new value
Put(map, file, text) ==
    IF \E i \in 1..Len(map) : map[i].file = file
    THEN [i \in 1..Len(map) |-> IF map[i].file = file THEN [file |-> file, text |-> text]
                                 ELSE map[i]]
    ELSE Append(map, [file |-> file, text |-> text])

\* formData[field.name] || field.default || ''
FieldValue(fd, field) ==
    IF field.name \in DOMAIN fd.fields /\ fd.fields[field.name] # <<>>
    THEN fd.fields[field.name]
    ELSE field.default

\* config.fields.map(field => ({...field, value: ...}))
ComponentFields(config, fd) ==
    [i \in 1..Len(config.fields) |->
        [name |-> config.fields[i].name, type |-> config.fields[i].type,
         label |-> config.fields[i].label, required |-> config.fields[i].required,
         options |-> config.fields[i].options, default |-> config.fields[i].default,
         value |-> FieldValue(fd, config.fields[i])]]

\* a block that renders its artifact whatever the toggle says
GenerateStepAlways(acc, enabled, file, rendered, interpolate, fd) ==
    IF acc.threw THEN acc
    ELSE IF rendered.threw THEN [threw |-> TRUE, files |-> acc.files]
    ELSE [threw |-> FALSE,
          files |-> Put(acc.files, file,
                        IF interpolate THEN interpolateVariables(rendered.text, fd)
                        ELSE rendered.text)]

\* One "if (formData.generateX !== false) { ... }" block: acc is the outcome so
\* far, an exception ends the function
GenerateStep(acc, enabled, file, rendered, interpolate, fd) ==
    IF acc.threw \/ ~enabled THEN acc
    ELSE IF rendered.threw THEN [threw |-> TRUE, files |-> acc.files]
    ELSE [threw |-> FALSE,
          files |-> Put(acc.files, file,
                        IF interpolate THEN interpolateVariables(rendered.text, fd)
                        ELSE rendered.text)]

generateComponentCode(fd) ==
    IF componentType \notin DOMAIN componentTypes
    THEN [threw |-> TRUE, files |-> <<>>]   \* config is null: config.fields throws
    ELSE
    LET config == componentTypes[componentType]
        componentFields == ComponentFields(config, fd)
        s0 == [threw |-> FALSE, files |-> <<>>]
        s1 == GenerateStep(s0, fd.toggles.generateHTL,
                  getKebabCaseName(fd.componentName) \o <<".html">>,
                  generateHTL(fd.componentName, componentType, componentFields), TRUE, fd)
        s2 == GenerateStep(s1, fd.toggles.generateSlingModel,
                  getPascalCaseName(fd.componentName) \o <<"Model.java">>,
                  generateSlingModel(fd.componentName, componentType, componentFields,
                                     fd.packageName), TRUE, fd)
        s3 == GenerateStep(s2, fd.toggles.generateDialog,
                  <<"_cq_dialog/.content.xml">>,
                  generateDialog(fd.componentName, componentType, componentFields), TRUE, fd)
        s4 == GenerateStep(s3, fd.toggles.generateCSS,
                  getKebabCaseName(fd.componentName) \o <<".scss">>,
                  generateCSS(fd.componentName, componentType), FALSE, fd)
        s5 == GenerateStep(s4, fd.toggles.generateReadme,
                  <<"README.md">>,
                  generateReadme(fd.componentName, componentType, componentFields), FALSE, fd)
    IN  s5

\* ------------------------------------------------------------------------
\* ComponentGenerator.validateGenerationData
\* ------------------------------------------------------------------------
Toast(title, message, type) == [title |-> title, message |-> message, type |-> type]

\* the validation with its three pattern checks left out
validateGenerationDataRequiredOnly(fd) ==
    IF IsBlank(fd.componentName) \/ IsBlank(fd.packageName) \/ IsBlank(fd.projectName)
    THEN [ok |-> FALSE,
          toasts |-> <<Toast("Validation Error", "a required field is empty", "error")>>]
    ELSE [ok |-> TRUE, toasts |-> <<>>]

\* the first failing check decides: its toast is shown and false returned
validateGenerationData(fd) ==
    IF IsBlank(fd.componentName)
    THEN [ok |-> FALSE,
          toasts |-> <<Toast("Validation Error", "component name is required", "error")>>]
    ELSE IF IsBlank(fd.packageName)
    THEN [ok |-> FALSE,
          toasts |-> <<Toast("Validation Error", "package name is required", "error")>>]
    ELSE IF IsBlank(fd.projectName)
    THEN [ok |-> FALSE,
          toasts |-> <<Toast("Validation Error", "project name is required", "error")>>]
    ELSE IF ~TestComponentName(fd.componentName)
    THEN [ok |-> FALSE,
          toasts |-> <<Toast("Validation Error",
              "Component name must start with a letter and contain only letters, numbers, and spaces",
              "error")>>]
    ELSE IF ~TestPackageName(fd.packageName)
    THEN [ok |-> FALSE,
          toasts |-> <<Toast("Validation Error",
              "Package name must be a valid Java package", "error")>>]
    ELSE IF ~TestProjectName(fd.projectName)
    THEN [ok |-> FALSE,
          toasts |-> <<Toast("Validation Error",
              "Project name must be lowercase and contain only letters and numbers",
              "error")>>]
    ELSE [ok |-> TRUE, toasts |-> <<>>]


\* ------------------------------------------------------------------------
\* The configuration form (UIComponents.createComponentForm and its handlers)
\* ------------------------------------------------------------------------
HeroBanner     == <<"H","e","r","o"," ","B","a","n","n","e","r">>
FirstComponent == <<"1","s","t"," ","C","o","m","p","o","n","e","n","t">>
DefaultPackage == <<"c","o","m",".","e","x","a","m","p","l","e",".","a","e","m",".","c","o","r","e">>
BadPackage     == <<"C","o","m",".","E","x","a","m","p","l","e">>
DefaultProject == <<"m","y","p","r","o","j","e","c","t">>
BadProject     == <<"m","y","-","p","r","o","j","e","c","t">>
BuyNow         == <<"B","u","y"," ","N","o","w">>
ContentPath    == <<"/","c","o","n","t","e","n","t","/","x">>
DefaultColor   == <<"#","3","B","8","2","F","6">>
OtherColor     == <<"#","0","0","0","0","0","0">>

\* bounds of the model
MaxEdits == 1
MaxClock == 1

\* what the user may type or pick
NameInputs    == {<<>>, HeroBanner, FirstComponent}
PackageInputs == {DefaultPackage, BadPackage}
ProjectInputs == {DefaultProject, BadProject}
FieldInputs(field) ==
    CASE field.type = "select"     -> {<<>>} \cup {field.options[i] : i \in {1, 2}}
      [] field.type = "colorfield" -> {DefaultColor, OtherColor}
      [] field.type = "pathfield"  -> {<<>>, ContentPath}
      [] field.type = "image"      -> {<<>>, ContentPath}
      [] OTHER                     -> {<<>>, BuyNow}

GenerateOptions ==
    {"generateHTL", "generateSlingModel", "generateDialog", "generateCSS", "generateReadme"}

FieldNames(config) == {config.fields[i].name : i \in DOMAIN config.fields}
FieldNamed(config, name) ==
    config.fields[CHOOSE i \in DOMAIN config.fields : config.fields[i].name = name]

\* the value createFormField gives the input of a field
InitialFieldValue(field) ==
    CASE field.type = "select" ->
            IF \E i \in DOMAIN field.options : field.options[i] = field.default
            THEN field.default ELSE <<>>
      [] field.type = "colorfield" ->
            IF field.default # <<>> THEN field.default ELSE DefaultColor
      [] OTHER -> field.default

createComponentForm(config) ==
    [componentName |-> <<>>,
     packageName   |-> DefaultPackage,
     projectName   |-> DefaultProject,
     fields        |-> [n \in FieldNames(config) |-> InitialFieldValue(FieldNamed(config, n))],
     toggles       |-> [o \in GenerateOptions |-> TRUE],
     errors        |-> {}]

getFormData(f) ==
    [componentName |-> f.componentName, packageName |-> f.packageName,
     projectName |-> f.projectName, fields |-> f.fields, toggles |-> f.toggles]

Input(name, label, value, required) ==
    [name |-> name, label |-> label, value |-> value, required |-> required]

\* form.querySelectorAll('input[required], select[required], textarea[required]')
RequiredInputs(f, config) ==
    << Input(<<"componentName">>, "Component Name", f.componentName, TRUE),
       Input(<<"packageName">>, "Java Package", f.packageName, TRUE),
       Input(<<"projectName">>, "Project Name", f.projectName, TRUE) >>
    \o SelectSeq([i \in 1..Len(config.fields) |->
                    Input(config.fields[i].name, config.fields[i].label,
                          f.fields[config.fields[i].name], config.fields[i].required)],
                 LAMBDA in : in.required)

\* UIComponents.validateField: the verdict and the message put under the input
validateField(input) ==
    IF input.required /\ trim(input.value) = <<>>
    THEN [valid |-> FALSE, message |-> input.label \o " is required"]
    ELSE IF trim(input.value) = <<>>
    THEN [valid |-> TRUE, message |-> ""]
    ELSE IF input.name = <<"componentName">> /\ ~TestComponentName(input.value)
    THEN [valid |-> FALSE, message |->
          "Component name must start with a letter and contain only letters, numbers, and spaces"]
    ELSE IF input.name = <<"packageName">> /\ ~TestPackageName(input.value)
    THEN [valid |-> FALSE, message |->
          "Package name must be a valid Java package (e.g., com.example.aem.core)"]
    ELSE IF input.name = <<"projectName">> /\ ~TestProjectName(input.value)
    THEN [valid |-> FALSE, message |->
          "Project name must be lowercase and contain only letters and numbers"]
    ELSE [valid |-> TRUE, message |-> ""]

\* the error elements of the form after validateField ran on one input
WithFieldError(errors, input) ==
    LET others == {e \in errors : e.input # input.name}
        v == validateField(input)
    IN  IF v.valid THEN others
        ELSE others \cup {[input |-> input.name, message |-> v.message]}

RECURSIVE WithFieldErrors(_, _)
WithFieldErrors(errors, inputs) ==
    IF inputs = <<>> THEN errors
    ELSE WithFieldErrors(WithFieldError(errors, Head(inputs)), Tail(inputs))

\* UIComponents.validateForm
validateForm(f, config) ==
    LET inputs == RequiredInputs(f, config)
    IN  [valid  |-> \A i \in 1..Len(inputs) : validateField(inputs[i]).valid,
         errors |-> WithFieldErrors(f.errors, inputs)]

\* ------------------------------------------------------------------------
\* Handlers
\* ------------------------------------------------------------------------
\* ghost record of the latest handler: the form data it was given, whether
\* validateGenerationData ran and what it returned, whether generateComponentCode
\* was called and threw, the toasts shown, and whether the request rendered is
\* the one generatedCode already came from (again), at the same clock reading
Handled(op, fd, validated, valid, rendered, threw, toasts) ==
    [op |-> op, data |-> fd, validated |-> validated, valid |-> valid,
     rendered |-> rendered, threw |-> threw, toasts |-> toasts,
     again |-> /\ rendered /\ ~threw /\ codeRequest # None /\ fd # None
               /\ codeRequest[1].type = componentType
               /\ codeRequest[1].data = fd[1],
     sameClock |-> codeRequest # None /\ codeRequest[1].at = now,
     delivered |-> None]
Idle == [op |-> "none", data |-> None, validated |-> FALSE, valid |-> FALSE,
         rendered |-> FALSE, threw |-> FALSE, toasts |-> <<>>,
         again |-> FALSE, sameClock |-> FALSE, delivered |-> None]

componentConfig == componentTypes[componentType]

\* ComponentGenerator.showComponentSelector, with what becomes of the form it
\* removes from the page: a pending debounce timer keeps running
showComponentSelector ==
    /\ step' = "selection"
    /\ componentType' = NoType
    /\ previewShown' = FALSE
    /\ form' = None
    /\ timer' = FALSE
    /\ detached' = IF form # None /\ timer THEN detached \cup {getFormData(form[1])}
                   ELSE detached

\* switchSection('component-generator'), by a click on the navigation link or
\* by popstate: handleSectionSwitch calls initializeComponentGenerator, that is
\* ComponentGenerator.initialize, whatever was initialized before
SwitchSection ==
    /\ showComponentSelector
    /\ last' = [Idle EXCEPT !.op = "switchSection"]
    /\ UNCHANGED <<debounceVars, componentTypes, formData, generatedCode, loading, now,
                   codeRequest, edits, args, result>>

\* the Back button: resetToComponentSelection
Back ==
    /\ form # None
    /\ showComponentSelector
    /\ last' = Idle
    /\ UNCHANGED <<debounceVars, componentTypes, formData, generatedCode, loading, now,
                   codeRequest, edits, args, result>>

\* ComponentGenerator.onComponentTypeSelected / showConfigurationForm
onComponentTypeSelected(typeKey) ==
    /\ form = None
    /\ typeKey \in DOMAIN componentTypes
    /\ step' = "configuration"
    /\ componentType' = typeKey
    /\ form' = Some(createComponentForm(componentTypes[typeKey]))
    /\ last' = Idle
    /\ UNCHANGED <<debounceVars, componentTypes, formData, generatedCode, timer, detached, loading,
                   previewShown, now, codeRequest, edits, args, result>>

\* an input or change event on one input of the form: the value changes and
\* the debounced handleFormChange is (re)scheduled
InputEvent(f) ==
    /\ edits < MaxEdits
    /\ edits' = edits + 1
    /\ form' = Some(f)
    /\ timer' = TRUE
    /\ last' = Idle
    /\ UNCHANGED <<debounceVars, componentTypes, step, componentType, formData, generatedCode, detached,
                   loading, previewShown, now, codeRequest, args, result>>

EditComponentName ==
    /\ form # None
    /\ \E v \in NameInputs :
          v # form[1].componentName /\ InputEvent([form[1] EXCEPT !.componentName = v])

EditPackageName ==
    /\ form # None
    /\ \E v \in PackageInputs :
          v # form[1].packageName /\ InputEvent([form[1] EXCEPT !.packageName = v])

EditProjectName ==
    /\ form # None
    /\ \E v \in ProjectInputs :
          v # form[1].projectName /\ InputEvent([form[1] EXCEPT !.projectName = v])

EditField ==
    /\ form # None
    /\ \E n \in FieldNames(componentConfig) :
          \E v \in FieldInputs(FieldNamed(componentConfig, n)) :
             v # form[1].fields[n] /\ InputEvent([form[1] EXCEPT !.fields[n] = v])

ToggleOption ==
    /\ form # None
    /\ \E o \in GenerateOptions :
          InputEvent([form[1] EXCEPT !.toggles[o] = ~form[1].toggles[o]])

\* the blur listener of a required input: validateField(input)
Blur ==
    /\ form # None
    /\ LET inputs == RequiredInputs(form[1], componentConfig) IN
       \E i \in 1..Len(inputs) :
          form' = Some([form[1] EXCEPT !.errors = WithFieldError(form[1].errors, inputs[i])])
    /\ last' = Idle
    /\ UNCHANGED <<debounceVars, componentTypes, step, componentType, formData, generatedCode, timer,
                   detached, loading, previewShown, now, codeRequest, edits, args, result>>

ProjectNameMaxLen == 15

\* componentName.toLowerCase().replace(/[^a-z0-9]/g, '').substring(0, 15)
AutoProjectName(componentName) ==
    LET kept == SelectSeq(toLowerCase(componentName),
                          LAMBDA c : c \in LowerChars \cup DigitChars)
    IN  SubSeq(kept, 1, IF Len(kept) < ProjectNameMaxLen THEN Len(kept) ELSE ProjectNameMaxLen)

\* ComponentGenerator.onFormChange(formData); the project field it looks up is
\* the one on the page now.  Neither formData.manuallySetProject nor
\* dataset.manuallySet is ever set by the code.
onFormChange(fd) ==
    /\ formData' = Some(fd)
    /\ form' = IF fd.componentName # <<>> /\ form # None
               THEN LET projectName == AutoProjectName(fd.componentName) IN
                    Some([form[1] EXCEPT !.projectName =
                            IF projectName # <<>> THEN projectName ELSE DefaultProject])
               ELSE form

\* the debounce timer of the form on the page expires
TimerFire ==
    /\ form # None
    /\ timer
    /\ timer' = FALSE
    /\ onFormChange(getFormData(form[1]))
    /\ last' = Idle
    /\ UNCHANGED <<debounceVars, componentTypes, step, componentType, generatedCode, detached, loading,
                   previewShown, now, codeRequest, edits, args, result>>

\* the debounce timer of a form that is no longer on the page expires
DetachedTimerFire ==
    /\ \E fd \in detached :
          /\ detached' = detached \ {fd}
          /\ onFormChange(fd)
    /\ last' = Idle
    /\ UNCHANGED <<debounceVars, componentTypes, step, componentType, generatedCode, timer, loading,
                   previewShown, now, codeRequest, edits, args, result>>

\* an onGenerate that renders whatever validateGenerationData returned
onGenerateUnvalidated(fd, isPreview) ==
    LET op == IF isPreview THEN "preview" ELSE "generate"
        v  == validateGenerationData(fd)
        g  == generateComponentCode(fd)
    IN  /\ loading' = FALSE
        /\ previewShown' = TRUE
        /\ step' = "generation"
        /\ generatedCode' = Some(g.files)
        /\ codeRequest' = Some([type |-> componentType, data |-> fd, at |-> now])
        /\ last' = Handled(op, Some(fd), TRUE, v.ok, TRUE, g.threw, v.toasts)

\* a catch block reached after currentState was already updated
GenerationFailedAfterUpdate(op, fd) ==
    /\ loading' = FALSE
    /\ step' = "generation"
    /\ generatedCode' = None
    /\ last' = Handled(op, Some(fd), TRUE, TRUE, TRUE, TRUE,
                       <<Toast("Generation Failed", "Failed to generate component", "error")>>)
    /\ UNCHANGED <<previewShown, codeRequest>>

\* the catch block of onGenerate: hideLoadingState and the error toast
GenerationFailed(op, fd) ==
    /\ loading' = FALSE
    /\ last' = Handled(op, Some(fd), TRUE, TRUE, TRUE, TRUE,
                       <<Toast("Generation Failed", "Failed to generate component", "error")>>)
    /\ UNCHANGED <<step, generatedCode, previewShown, codeRequest>>

\* ComponentGenerator.onGenerate(formData, isPreview)
onGenerate(fd, isPreview) ==
    LET op == IF isPreview THEN "preview" ELSE "generate"
        v  == validateGenerationData(fd)
    IN
    IF ~v.ok
    THEN /\ last' = Handled(op, Some(fd), TRUE, FALSE, FALSE, FALSE, v.toasts)
         /\ UNCHANGED <<step, generatedCode, previewShown, loading, codeRequest>>
    ELSE LET g == generateComponentCode(fd) IN
         IF g.threw
         THEN GenerationFailed(op, fd)
         ELSE /\ loading' = FALSE
              /\ previewShown' = TRUE
              /\ step' = "generation"
              /\ generatedCode' = Some(g.files)
              /\ codeRequest' = Some([type |-> componentType, data |-> fd, at |-> now])
              /\ last' = Handled(op, Some(fd), TRUE, TRUE, TRUE, FALSE,
                    <<Toast("Preview Ready", "Code preview is now available below", "success")>>
                    \o (IF isPreview THEN <<>>
                        ELSE <<Toast("Component Generated!", "Successfully generated files",
                                     "success")>>))

\* a preview whose field values are written into the registry's own field
\* descriptors instead of copies of them
PreviewWritingRegistry ==
    /\ form # None
    /\ onGenerate(getFormData(form[1]), TRUE)
    /\ componentTypes' = [componentTypes EXCEPT ![componentType].fields =
                             ComponentFields(componentConfig, getFormData(form[1]))]
    /\ UNCHANGED <<debounceVars, componentType, formData, form, timer, detached, now, edits, args, result>>

\* click on "Preview Code"
Preview ==
    /\ form # None
    /\ onGenerate(getFormData(form[1]), TRUE)
    /\ UNCHANGED <<debounceVars, componentTypes, componentType, formData, form, timer, detached, now,
                   edits, args, result>>

\* submit of the form ("Generate Component")
Submit ==
    /\ form # None
    /\ LET vf == validateForm(form[1], componentConfig) IN
       /\ form' = Some([form[1] EXCEPT !.errors = vf.errors])
       /\ IF vf.valid
          THEN onGenerate(getFormData(form[1]), FALSE)
          ELSE /\ last' = Handled("generate", Some(getFormData(form[1])),
                                  FALSE, FALSE, FALSE, FALSE, <<>>)
               /\ UNCHANGED <<step, generatedCode, previewShown, loading, codeRequest>>
    /\ UNCHANGED <<debounceVars, componentTypes, componentType, formData, timer, detached, now,
                   edits, args, result>>

\* what a handler handed to the clipboard or to the browser's download: the
\* lines written before the files, and the artifact map
Delivery(op, header, files) ==
    [Idle EXCEPT !.op = op, !.delivered = Some([header |-> header, files |-> files])]

NoCode(op) ==
    [Idle EXCEPT !.op = op,
                 !.toasts = <<Toast("No Code", "No code has been generated yet", "warning")>>]

\* click on copyAllBtn: ComponentGenerator.copyAllCode
copyAllCode ==
    /\ last' = IF generatedCode = None THEN NoCode("copy")
               ELSE Delivery("copy", <<>>, generatedCode[1])
    /\ UNCHANGED <<debounceVars, componentTypes, step, componentType, formData, generatedCode, form, timer,
                   detached, loading, previewShown, now, codeRequest, edits, args, result>>

\* click on downloadBtn: ComponentGenerator.downloadZip and downloadAsArchive,
\* which throws on this.currentState.formData.componentName when no form
\* change was taken yet
downloadZip ==
    /\ last' = IF generatedCode = None THEN NoCode("download")
               ELSE IF formData = None
               THEN [Idle EXCEPT !.op = "download", !.threw = TRUE,
                                 !.toasts = <<Toast("Download Failed",
                                     "Could not create download. Please copy the code manually.",
                                     "error")>>]
               ELSE Delivery("download",
                             << Tok("name", getKebabCaseName(formData[1].componentName)),
                                Tok("generated", toISOString),
                                Tok("type", <<componentType>>) >>,
                             generatedCode[1])
    /\ UNCHANGED <<debounceVars, componentTypes, step, componentType, formData, generatedCode, form, timer,
                   detached, loading, previewShown, now, codeRequest, edits, args, result>>

\* time passes
Tick ==
    /\ now[1] + now[2] < MaxClock
    /\ \/ now' = <<now[1], now[2] + 1>>
       \/ now' = <<now[1] + 1, 0>>
    /\ last' = Idle
    /\ UNCHANGED <<debounceVars, componentTypes, step, componentType, formData, generatedCode, form,
                   timer, detached, loading, previewShown, codeRequest, edits, args, result>>

\* no debounced function is under observation
NoDebounce ==
    /\ immediate = FALSE
    /\ timeout = None
    /\ timers = {}
    /\ elapsed = 0
    /\ calls = <<>>
    /\ invocations = <<>>

\* ------------------------------------------------------------------------
\* The application: from page load on
\* ------------------------------------------------------------------------
Init ==
    /\ componentTypes = RegisteredTypes
    /\ step = "selection"
    /\ componentType = NoType
    /\ formData = None
    /\ generatedCode = None
    /\ form = None
    /\ timer = FALSE
    /\ NoDebounce
    /\ detached = {}
    /\ loading = FALSE
    /\ previewShown = FALSE
    /\ now = <<0, 0>>
    /\ last = Idle
    /\ codeRequest = None
    /\ edits = 0
    /\ args = None
    /\ result = None

SelectType == \E typeKey \in DOMAIN componentTypes : onComponentTypeSelected(typeKey)

Next ==
    \/ SwitchSection
    \/ SelectType
    \/ EditComponentName
    \/ EditPackageName
    \/ EditProjectName
    \/ EditField
    \/ ToggleOption
    \/ TimerFire
    \/ DetachedTimerFire
    \/ Preview
    \/ Submit
    \/ Back

Spec == Init /\ [][Next]_vars


\* ------------------------------------------------------------------------
\* A filled form: the handlers from any content the form can hold
\* ------------------------------------------------------------------------
OddName == <<"m","y"," "," ","C","A","R","D"," ","2"," ">>

AllOn == [o \in GenerateOptions |-> TRUE]

\* the values a required field is given; an optional field keeps its initial value
FilledFieldInputs(field) ==
    IF ~field.required THEN {InitialFieldValue(field)}
    ELSE IF field.type = "image" THEN {<<>>, ContentPath}
    ELSE {<<>>, <<" ">>, BuyNow}

FilledFields(config) ==
    {fs \in [FieldNames(config) ->
                UNION {FilledFieldInputs(config.fields[i]) : i \in DOMAIN config.fields}] :
        \A n \in FieldNames(config) : fs[n] \in FilledFieldInputs(FieldNamed(config, n))}

\* the identifiers: each one well formed, blank or malformed beside well-formed
\* others, and several malformed at once
FilledIdentifiers ==
    {<<n, DefaultPackage, DefaultProject>> :
        n \in {<<>>, <<" ">>, HeroBanner, FirstComponent, OddName}}
    \cup {<<HeroBanner, p, DefaultProject>> : p \in {<<>>, BadPackage}}
    \cup {<<HeroBanner, DefaultPackage, BadProject>>,
          <<FirstComponent, BadPackage, DefaultProject>>,
          <<FirstComponent, BadPackage, BadProject>>}

\* any identifiers beside the form's initial fields, any content of the required
\* fields and any choice of artifacts beside well-formed identifiers
FilledForms(config) ==
    {[componentName |-> id[1], packageName |-> id[2], projectName |-> id[3],
      fields |-> createComponentForm(config).fields, toggles |-> AllOn, errors |-> {}] :
        id \in FilledIdentifiers}
    \cup
    {[componentName |-> HeroBanner, packageName |-> DefaultPackage,
      projectName |-> DefaultProject, fields |-> fs, toggles |-> AllOn, errors |-> {}] :
        fs \in FilledFields(config)}
    \cup
    {[componentName |-> HeroBanner, packageName |-> DefaultPackage,
      projectName |-> DefaultProject, fields |-> createComponentForm(config).fields,
      toggles |-> t, errors |-> {}] : t \in [GenerateOptions -> BOOLEAN]}

FormInit ==
    /\ componentTypes = RegisteredTypes
    /\ componentType \in DOMAIN RegisteredTypes
    /\ step = "configuration"
    /\ form \in {Some(f) : f \in FilledForms(RegisteredTypes[componentType])}
    /\ formData = None
    /\ generatedCode = None
    /\ timer = FALSE
    /\ NoDebounce
    /\ detached = {}
    /\ loading = FALSE
    /\ previewShown = FALSE
    /\ now = <<0, 0>>
    /\ last = Idle
    /\ codeRequest = None
    /\ edits = 0
    /\ args = None
    /\ result = None

FormNext ==
    \/ Preview
    \/ Submit
    \/ Blur

FormSpec == FormInit /\ [][FormNext]_vars

\* ------------------------------------------------------------------------
\* A well-formed form rendered at different moments
\* ------------------------------------------------------------------------
ClockInit ==
    /\ FormInit
    /\ form[1].toggles = AllOn
    /\ validateGenerationData(getFormData(form[1])).ok

ClockNext ==
    \/ Preview
    \/ Submit
    \/ Tick

ClockSpec == ClockInit /\ [][ClockNext]_vars

\* ------------------------------------------------------------------------
\* Delivery of the artifacts
\* ------------------------------------------------------------------------
\* The page 300 ms after the user selected one of two types and typed "Hero Banner" as
\* the component name: onFormChange has stored the form data and filled the
\* project name in.
DeliveryInit ==
    /\ componentTypes = RegisteredTypes
    /\ componentType \in {"button-component", "card-component"}
    /\ step = "configuration"
    /\ formData = Some(getFormData([createComponentForm(RegisteredTypes[componentType])
                                       EXCEPT !.componentName = HeroBanner]))
    /\ form = Some([createComponentForm(RegisteredTypes[componentType])
                       EXCEPT !.componentName = HeroBanner,
                              !.projectName = AutoProjectName(HeroBanner)])
    /\ generatedCode = None
    /\ timer = FALSE
    /\ NoDebounce
    /\ detached = {}
    /\ loading = FALSE
    /\ previewShown = FALSE
    /\ now = <<0, 0>>
    /\ last = Idle
    /\ codeRequest = None
    /\ edits = 0
    /\ args = None
    /\ result = None

DeliveryNext ==
    \/ EditComponentName
    \/ TimerFire
    \/ Preview
    \/ Back
    \/ SelectType
    \/ copyAllCode
    \/ downloadZip

DeliverySpec == DeliveryInit /\ [][DeliveryNext]_vars

\* ------------------------------------------------------------------------
\* A filled form whose project name the user types
\* ------------------------------------------------------------------------
\* The only input event is one on the projectName input, so that edits > 0
\* says the user has typed a project name.
ProjectNext ==
    \/ EditProjectName
    \/ TimerFire

ProjectSpec == FormInit /\ [][ProjectNext]_vars


\* ------------------------------------------------------------------------
\* The library called directly: one call per run, on any argument
\* ------------------------------------------------------------------------
\* interpolateTemplate(template, variables): a placeholder whose key the
\* variables give is replaced, any other is returned as it stands
interpolateTemplate(template, variables) ==
    [i \in 1..Len(template) |->
        IF template[i].k = "placeholder"
           /\ \E j \in 1..Len(variables) : variables[j].key = template[i].v[1]
        THEN Tok("text", variables[CHOOSE j \in 1..Len(variables) :
                                      variables[j].key = template[i].v[1]].value)
        ELSE template[i]]

PlaceholderKeys ==
    {"componentPackage", "projectName", "componentName", "kebabCase", "pascalCase", "camelCase"}

UnknownType == "tabs-component"
FieldTypeInputs == DOMAIN fieldTypeMap \cup {"bogus"}

\* a field descriptor of the given kind, as a caller of the renderers passes it
FieldOfType(fieldType) ==
    [name |-> s_title, type |-> fieldType, label |-> "Title", required |-> TRUE,
     options |-> IF fieldType = "select" THEN <<s_left, s_right>> ELSE <<>>,
     default |-> <<>>, value |-> BuyNow]

NoCall ==
    [fn |-> "none", componentName |-> <<>>, componentType |-> NoType, fieldType |-> "text",
     fields |-> <<>>, str |-> <<>>, variant |-> "none", isPreview |-> FALSE,
     template |-> <<>>, variables |-> <<>>,
     formData |-> getFormData(createComponentForm(RegisteredTypes["text-component"]))]

RendererNames ==
    {"generateHTL", "generateSlingModel", "generateDialog", "generateCSS", "generateReadme"}

\* a renderer on a list of one field of any kind, on no field at all, on a
\* list of two fields and on the fields of the type as generateComponentCode
\* passes them
RendererCalls ==
    {[NoCall EXCEPT !.fn = f, !.componentName = n, !.componentType = t, !.fieldType = k,
                    !.fields = <<FieldOfType(k)>>] :
        f \in RendererNames,
        n \in {HeroBanner, OddName},
        t \in DOMAIN RegisteredTypes \cup {UnknownType},
        k \in FieldTypeInputs}
    \cup
    {[NoCall EXCEPT !.fn = f, !.componentName = HeroBanner, !.componentType = t, !.fields = fs] :
        f \in RendererNames,
        t \in DOMAIN RegisteredTypes,
        fs \in {<<>>,
                <<FieldOfType("select"),
                  [FieldOfType("text") EXCEPT !.name = s_text, !.label = "Text",
                                              !.required = FALSE]>>}}
    \cup
    {[NoCall EXCEPT !.fn = f, !.componentName = HeroBanner, !.componentType = t,
                    !.fields = ComponentFields(RegisteredTypes[t], NoCall.formData)] :
        f \in RendererNames,
        t \in DOMAIN RegisteredTypes}

FieldTypeCalls == {[NoCall EXCEPT !.fn = "getDialogFieldType", !.fieldType = k] : k \in FieldTypeInputs}

TemplateCalls ==
    {[NoCall EXCEPT !.fn = "interpolateTemplate",
                    !.template = <<Placeholder(key), Lit("/components/"), Placeholder("kebabCase")>>,
                    !.variables = vs] :
        key \in PlaceholderKeys,
        vs \in {<<>>,
                <<[key |-> "kebabCase", value |-> getKebabCaseName(HeroBanner)]>>,
                <<[key |-> "kebabCase", value |-> getKebabCaseName(HeroBanner)],
                  [key |-> "projectName", value |-> DefaultProject],
                  [key |-> "componentPackage", value |-> DefaultPackage]>>}}

\* generateComponentCode on form data holding every field, or no field at all
ComponentCodeCall(t, fs) ==
    [NoCall EXCEPT !.fn = "generateComponentCode", !.componentType = t,
                   !.formData = [getFormData(createComponentForm(RegisteredTypes[t]))
                                    EXCEPT !.componentName = HeroBanner, !.fields = fs]]
ComponentCodeCalls ==
    UNION {{ComponentCodeCall(t, createComponentForm(RegisteredTypes[t]).fields),
            ComponentCodeCall(t, <<>>)} : t \in DOMAIN RegisteredTypes}

\* onGenerate called with the data of a button-component form while
\* currentState holds that type, or holds no type (as it does before a type is
\* selected and after showComponentSelector)
OnGenerateCalls ==
    {[ComponentCodeCall("button-component",
                        createComponentForm(RegisteredTypes["button-component"]).fields)
         EXCEPT !.fn = "onGenerate", !.componentType = t, !.isPreview = p] :
        t \in {"button-component", NoType}, p \in BOOLEAN}

\* an artifact map left in currentState.generatedCode by an earlier generation
EarlierCode ==
    <<[file |-> <<"README.md">>,
       text |-> generateReadme(HeroBanner, "text-component",
                               ComponentFields(RegisteredTypes["text-component"],
                                               NoCall.formData)).text]>>

LibInit ==
    /\ componentTypes = RegisteredTypes
    /\ args \in {Some(c) : c \in RendererCalls \cup FieldTypeCalls \cup TemplateCalls
                                  \cup ComponentCodeCalls \cup OnGenerateCalls}
    /\ componentType = IF args[1].fn \in {"generateComponentCode", "onGenerate"}
                       THEN args[1].componentType
                       ELSE NoType
    /\ step = IF componentType # NoType THEN "configuration" ELSE "selection"
    /\ form = None
    /\ formData = None
    /\ timer = FALSE
    /\ NoDebounce
    /\ detached = {}
    /\ loading = FALSE
    /\ previewShown = FALSE
    /\ now = <<0, 0>>
    /\ generatedCode \in IF args[1].fn = "onGenerate" THEN {None, Some(EarlierCode)} ELSE {None}
    /\ last = Idle
    /\ codeRequest = None
    /\ edits = 0
    /\ result = None

Outcome(fn, threw, text) == Some([fn |-> fn, threw |-> threw, text |-> text])

Call(fn, rendered) ==
    /\ args # None
    /\ args[1].fn = fn
    /\ result = None
    /\ result' = Outcome(fn, rendered.threw, rendered.text)
    /\ UNCHANGED <<debounceVars, componentTypes, step, componentType, formData, generatedCode, form, timer,
                   detached, loading, previewShown, now, last, codeRequest, edits, args>>

CallGenerateHTL ==
    Call("generateHTL", generateHTL(args[1].componentName, args[1].componentType,
                                    args[1].fields))
CallGenerateSlingModel ==
    Call("generateSlingModel", generateSlingModel(args[1].componentName, args[1].componentType,
                                    args[1].fields, DefaultPackage))
CallGenerateDialog ==
    Call("generateDialog", generateDialog(args[1].componentName, args[1].componentType,
                                    args[1].fields))
CallGenerateCSS ==
    Call("generateCSS", generateCSS(args[1].componentName, args[1].componentType))
CallGenerateReadme ==
    Call("generateReadme", generateReadme(args[1].componentName, args[1].componentType,
                                    args[1].fields))
CallGetDialogFieldType ==
    Call("getDialogFieldType",
         Returned(<<Tok("resourceType", <<getDialogFieldType(args[1].fieldType)>>)>>))
CallInterpolateTemplate ==
    Call("interpolateTemplate",
         Returned(interpolateTemplate(args[1].template, args[1].variables)))
\* the artifacts of the map, one after the other, each behind its file name
CallGenerateComponentCode ==
    LET g == generateComponentCode(args[1].formData) IN
    Call("generateComponentCode",
         [threw |-> g.threw,
          text  |-> Flatten([i \in 1..Len(g.files) |->
                               <<Tok("file", g.files[i].file)>> \o g.files[i].text])])

\* ComponentGenerator.onGenerate called directly; it catches what rendering
\* throws and returns nothing
CallOnGenerate ==
    /\ args # None
    /\ args[1].fn = "onGenerate"
    /\ result = None
    /\ onGenerate(args[1].formData, args[1].isPreview)
    /\ result' = Outcome("onGenerate", FALSE, <<>>)
    /\ UNCHANGED <<debounceVars, componentTypes, componentType, formData, form, timer, detached, now,
                   edits, args>>

LibNext ==
    \/ CallGenerateHTL
    \/ CallGenerateSlingModel
    \/ CallGenerateDialog
    \/ CallGenerateCSS
    \/ CallGenerateReadme
    \/ CallGetDialogFieldType
    \/ CallInterpolateTemplate
    \/ CallGenerateComponentCode
    \/ CallOnGenerate

LibSpec == LibInit /\ [][LibNext]_vars

\* ------------------------------------------------------------------------
\* The naming functions called on their own
\* ------------------------------------------------------------------------
\* Strings given to the naming functions: letters of both cases, a digit and
\* four characters that are not alphanumeric, up to MaxStrLen characters, and
\* the display names of the forms.
MaxStrLen == 3
NameAlphabet == {"a", "B", "1", " ", "-", "_", "."}

RECURSIVE StringsUpTo(_)
StringsUpTo(n) ==
    IF n = 0 THEN {<<>>}
    ELSE LET shorter == StringsUpTo(n - 1)
         IN  shorter \cup {Append(s, c) : s \in shorter, c \in NameAlphabet}

NameStrings == StringsUpTo(MaxStrLen) \cup {HeroBanner, OddName, FirstComponent}

\* the keys of the object createNamingConventions returns, but original
Variants == {"camelCase", "pascalCase", "kebabCase", "snakeCase", "constantCase"}

NameHelpers == {"getKebabCaseName", "getPascalCaseName", "getCamelCaseName"}

\* the normalizer or a helper of the generator called on a string, or
\* generateComponentCode on the form data of a text-component named by it
NamingCalls ==
    {[NoCall EXCEPT !.fn = f, !.str = s] :
        f \in {"createNamingConventions"} \cup NameHelpers, s \in NameStrings}
    \cup {[ComponentCodeCall("text-component", <<>>)
              EXCEPT !.str = s, !.formData.componentName = s] :
            s \in StringsUpTo(MaxStrLen - 1) \cup {HeroBanner, OddName, FirstComponent}}

NamingInit ==
    /\ componentTypes = RegisteredTypes
    /\ args \in {Some(c) : c \in NamingCalls}
    /\ componentType = args[1].componentType
    /\ step = IF componentType # NoType THEN "configuration" ELSE "selection"
    /\ form = None
    /\ formData = None
    /\ generatedCode = None
    /\ timer = FALSE
    /\ NoDebounce
    /\ detached = {}
    /\ loading = FALSE
    /\ previewShown = FALSE
    /\ now = <<0, 0>>
    /\ last = Idle
    /\ codeRequest = None
    /\ edits = 0
    /\ result = None

\* the returned object, one token per key
CallCreateNamingConventions ==
    LET naming == createNamingConventions(args[1].str) IN
    Call("createNamingConventions",
         Returned(<<Tok("camelCase", naming.camelCase), Tok("pascalCase", naming.pascalCase),
                    Tok("kebabCase", naming.kebabCase), Tok("snakeCase", naming.snakeCase),
                    Tok("constantCase", naming.constantCase),
                    Tok("original", naming.original)>>))

CallGetKebabCaseName ==
    Call("getKebabCaseName", Returned(<<Tok("kebabCase", getKebabCaseName(args[1].str))>>))

CallGetPascalCaseName ==
    Call("getPascalCaseName", Returned(<<Tok("pascalCase", getPascalCaseName(args[1].str))>>))

CallGetCamelCaseName ==
    Call("getCamelCaseName", Returned(<<Tok("camelCase", getCamelCaseName(args[1].str))>>))

\* the value the latest call returned under a key
Returns(key) == result[1].text[CHOOSE i \in 1..Len(result[1].text) : result[1].text[i].k = key].v

\* createNamingConventions is called next on one variant of what it returned
\* for a name, to read the same variant
Rederive ==
    /\ args # None /\ result # None
    /\ args[1].fn = "createNamingConventions"
    /\ args[1].variant = "none"
    /\ \E v \in Variants :
          args' = Some([args[1] EXCEPT !.str = Returns(v), !.variant = v])
    /\ result' = None
    /\ UNCHANGED <<debounceVars, componentTypes, step, componentType, formData, generatedCode, form, timer,
                   detached, loading, previewShown, now, last, codeRequest, edits>>

NamingNext ==
    \/ CallCreateNamingConventions
    \/ CallGetKebabCaseName
    \/ CallGetPascalCaseName
    \/ CallGetCamelCaseName
    \/ CallGenerateComponentCode
    \/ Rederive

NamingSpec == NamingInit /\ [][NamingNext]_vars


\* ------------------------------------------------------------------------
\* debounce(func, wait, immediate): the wrapper and the page's timers
\* ------------------------------------------------------------------------
\* wait, in units of elapsed; the number of calls and the time observed
Wait == 2
MaxCalls == 3
MaxTime == 6
CallArgs == {"a", "b"}

\* setTimeout(later, wait) of the call with this number
Timer(id, v) == [id |-> id, due |-> elapsed + Wait, args |-> v]

\* func(...args) runs
Invoked(id, v) == [call |-> id, args |-> v, at |-> elapsed, ncalls |-> Len(calls)]

\* clearTimeout(timeout): a handle that is null or has run clears nothing
clearTimeout(pending) == {t \in pending : timeout = None \/ t.id # timeout[1]}

\* the wrapper with clearTimeout(timeout) left out
DebouncedCallWithoutClear(v) ==
    LET id == Len(calls) + 1
        callNow == immediate /\ timeout = None IN
    /\ Len(calls) < MaxCalls
    /\ calls' = Append(calls, [args |-> v, at |-> elapsed, pending |-> timers # {}])
    /\ timers' = timers \cup {Timer(id, v)}
    /\ timeout' = Some(id)
    /\ invocations' = IF callNow THEN Append(invocations, [Invoked(id, v) EXCEPT !.ncalls = id])
                      ELSE invocations
    /\ UNCHANGED <<immediate, elapsed>>
    /\ UNCHANGED <<componentTypes, step, componentType, formData, generatedCode, form, timer,
                   detached, loading, previewShown, now, last, codeRequest, edits, args, result>>

\* executedFunction(...args): the debounced function is called
DebouncedCall(v) ==
    LET id == Len(calls) + 1
        callNow == immediate /\ timeout = None IN
    /\ Len(calls) < MaxCalls
    /\ calls' = Append(calls, [args |-> v, at |-> elapsed, pending |-> timers # {}])
    /\ timers' = clearTimeout(timers) \cup {Timer(id, v)}
    /\ timeout' = Some(id)
    /\ invocations' = IF callNow THEN Append(invocations, [Invoked(id, v) EXCEPT !.ncalls = id])
                      ELSE invocations
    /\ UNCHANGED <<immediate, elapsed>>
    /\ UNCHANGED <<componentTypes, step, componentType, formData, generatedCode, form, timer,
                   detached, loading, previewShown, now, last, codeRequest, edits, args, result>>

\* later(): a timer that is due runs, at its due time or any time after it
TimerExpires ==
    \E t \in timers :
        /\ t.due <= elapsed
        /\ timers' = timers \ {t}
        /\ timeout' = None
        /\ invocations' = IF ~immediate THEN Append(invocations, Invoked(t.id, t.args))
                          ELSE invocations
        /\ UNCHANGED <<immediate, elapsed, calls>>
        /\ UNCHANGED <<componentTypes, step, componentType, formData, generatedCode, form,
                       timer, detached, loading, previewShown, now, last, codeRequest, edits,
                       args, result>>

\* time passes
Advance ==
    /\ elapsed < MaxTime
    /\ elapsed' = elapsed + 1
    /\ UNCHANGED <<immediate, timeout, timers, calls, invocations>>
    /\ UNCHANGED <<componentTypes, step, componentType, formData, generatedCode, form, timer,
                   detached, loading, previewShown, now, last, codeRequest, edits, args, result>>

\* a function has just been wrapped, on the freshly loaded page
DebounceInit ==
    /\ componentTypes = RegisteredTypes
    /\ step = "selection"
    /\ componentType = NoType
    /\ formData = None
    /\ generatedCode = None
    /\ form = None
    /\ timer = FALSE
    /\ detached = {}
    /\ loading = FALSE
    /\ previewShown = FALSE
    /\ now = <<0, 0>>
    /\ last = Idle
    /\ codeRequest = None
    /\ edits = 0
    /\ args = None
    /\ result = None
    /\ immediate \in BOOLEAN
    /\ timeout = None
    /\ timers = {}
    /\ elapsed = 0
    /\ calls = <<>>
    /\ invocations = <<>>

DebounceNext ==
    \/ \E v \in CallArgs : DebouncedCall(v)
    \/ TimerExpires
    \/ Advance

DebounceSpec == DebounceInit /\ [][DebounceNext]_vars


\* ------------------------------------------------------------------------
\* Properties
\* ------------------------------------------------------------------------
Rendered == last.rendered /\ ~last.threw
Request == last.data[1]
Chars(s) == {s[i] : i \in 1..Len(s)}

\* the three identifier rules, stated on the identifier's characters and on
\* the dot-separated segments of the package
NameWellFormed(s) ==
    /\ Len(s) > 0
    /\ s[1] \in LowerChars \cup UpperChars
    /\ Chars(s) \subseteq LowerChars \cup UpperChars \cup DigitChars \cup SpaceChars
SegmentWellFormed(s) ==
    /\ Len(s) > 0
    /\ s[1] \in LowerChars
    /\ Chars(s) \subseteq LowerChars \cup DigitChars
PackageWellFormed(s) ==
    LET segments == split(s, ".") IN \A i \in 1..Len(segments) : SegmentWellFormed(segments[i])
NonBlank(s) == \E i \in 1..Len(s) : s[i] \notin SpaceChars

IdentifierNames == {<<"componentName">>, <<"packageName">>, <<"projectName">>}
IdentifierWellFormed(fd, name) ==
    CASE name = <<"componentName">> -> NonBlank(fd.componentName) /\ NameWellFormed(fd.componentName)
      [] name = <<"packageName">>   -> NonBlank(fd.packageName) /\ PackageWellFormed(fd.packageName)
      [] name = <<"projectName">>   -> NonBlank(fd.projectName) /\ SegmentWellFormed(fd.projectName)
FailingIdentifiers(fd) == {n \in IdentifierNames : ~IdentifierWellFormed(fd, n)}
WellFormedIdentifiers(fd) == FailingIdentifiers(fd) = {}

RequiredFieldNames(config) ==
    {config.fields[i].name : i \in {j \in DOMAIN config.fields : config.fields[j].required}}
BlankRequiredFields(fd) ==
    {n \in RequiredFieldNames(componentConfig) : ~NonBlank(fd.fields[n])}

\* C1: onGenerate calls generateComponentCode only after validateGenerationData
\* returned true for the same form data, and a handler whose validation fails
\* leaves currentState.step and currentState.generatedCode as they were.
C1_RenderOnlyAfterValidation ==
    /\ [](last.rendered =>
            last.validated /\ last.valid /\ WellFormedIdentifiers(Request))
    /\ [][(last'.op \in {"preview", "generate"} /\ ~last'.valid) =>
            (step' = step /\ generatedCode' = generatedCode /\ ~last'.rendered)]_vars

\* a validation fails while the artifacts of an earlier request are still held
C1_Witness ==
    last.op = "preview" /\ last.validated /\ ~last.valid /\ generatedCode # None

\* C2: a Preview or a Generate on a form in which a required field of the
\* selected type is blank renders nothing and reports an error for that field.
C2_RequiredFieldsCheckedByBothActions ==
    (last.op \in {"preview", "generate"} /\ BlankRequiredFields(Request) # {}) =>
        /\ ~last.rendered
        /\ \A n \in BlankRequiredFields(Request) : \E e \in form[1].errors : e.input = n

\* C3: validateGenerationData returns true, and validateField leaves the three
\* identifier inputs without an error, exactly when the three identifiers are
\* non-blank and match their patterns; "1st Component" is rejected and
\* "Hero Banner" (beside a well-formed package and project) is accepted.
C3_IdentifiersAcceptedExactlyWhenWellFormed ==
    /\ last.validated => (last.valid <=> WellFormedIdentifiers(Request))
    /\ last.validated /\ Request.componentName = FirstComponent => ~last.valid
    /\ (/\ last.validated
        /\ Request.componentName = HeroBanner
        /\ Request.packageName = DefaultPackage
        /\ Request.projectName = DefaultProject) => last.valid
    /\ form # None =>
         /\ \A e \in form[1].errors :
               e.input \in IdentifierNames => e.input \in FailingIdentifiers(getFormData(form[1]))
         /\ last.op = "generate" =>
               \A n \in FailingIdentifiers(Request) : \E e \in form[1].errors : e.input = n

\* "1st Component" is rejected although the package and the project are well formed
C3_Witness ==
    /\ last.validated /\ ~last.valid
    /\ Request.componentName = FirstComponent
    /\ FailingIdentifiers(Request) = {<<"componentName">>}

\* C4: a validation that fails reports one error per failing identifier.
C4_OneErrorPerFailingField ==
    (last.validated /\ ~last.valid) =>
        Len(last.toasts) = Cardinality(FailingIdentifiers(Request))

\* C5: the artifact map holds exactly one entry per enabled artifact kind, under
\* the pairwise distinct names {kebabCase}.html, {pascalCase}Model.java,
\* _cq_dialog/.content.xml, {kebabCase}.scss and README.md, in that order.
ArtifactNames(fd) ==
    LET naming == createNamingConventions(fd.componentName) IN
    << [toggle |-> "generateHTL",        file |-> naming.kebabCase \o <<".html">>],
       [toggle |-> "generateSlingModel", file |-> naming.pascalCase \o <<"Model.java">>],
       [toggle |-> "generateDialog",     file |-> <<"_cq_dialog/.content.xml">>],
       [toggle |-> "generateCSS",        file |-> naming.kebabCase \o <<".scss">>],
       [toggle |-> "generateReadme",     file |-> <<"README.md">>] >>
EnabledArtifactNames(fd) ==
    LET enabled == SelectSeq(ArtifactNames(fd), LAMBDA a : fd.toggles[a.toggle])
    IN  [i \in 1..Len(enabled) |-> enabled[i].file]
FileNames(code) == [i \in 1..Len(code[1]) |-> code[1][i].file]

C5_OneEntryPerEnabledArtifact ==
    Rendered =>
        /\ FileNames(generatedCode) = EnabledArtifactNames(Request)
        /\ Len(generatedCode[1]) = Cardinality({o \in GenerateOptions : Request.toggles[o]})
        /\ \A i, j \in 1..Len(generatedCode[1]) :
              i # j => generatedCode[1][i].file # generatedCode[1][j].file

\* a rendering with some artifacts enabled and some disabled
C5_Witness ==
    /\ Rendered
    /\ ~Request.toggles["generateHTL"] /\ ~Request.toggles["generateDialog"]
    /\ Len(generatedCode[1]) = 3

\* C6: a substitution pass returns text without a placeholder, or fails.
C6_NoPlaceholderLeftInOutput ==
    (result # None /\ result[1].fn \in {"interpolateTemplate", "generateComponentCode"}) =>
        \/ result[1].threw
        \/ \A i \in 1..Len(result[1].text) : result[1].text[i].k # "placeholder"

\* C7: every model property the markup reads is exposed by a method of the
\* logic artifact rendered for the same request: a method of that name, or its
\* get- or is-accessor.
Capitalized(p) == <<toUpperCaseChar(p[1])>> \o Tail(p)
Exposes(method, property) ==
    \/ method = property
    \/ method = s_get \o Capitalized(property)
    \/ method = s_is \o Capitalized(property)
TokensOf(text, kind) == {text[i].v : i \in {j \in 1..Len(text) : text[j].k = kind}}

C7_MarkupReferencesAreExposed ==
    (Rendered /\ Request.toggles["generateHTL"] /\ Request.toggles["generateSlingModel"]) =>
        \A property \in TokensOf(generatedCode[1][1].text, "ref") :
            \E method \in TokensOf(generatedCode[1][2].text, "method") :
                Exposes(method, property)

Untimed(code) ==
    [i \in 1..Len(code[1]) |->
        [file |-> code[1][i].file,
         text |-> SelectSeq(code[1][i].text, LAMBDA t : t.k # "generated")]]

C9_UnrecognizedTypeOrKindFails ==
    (/\ result # None
     /\ \/ /\ result[1].fn \in {"generateHTL", "generateSlingModel", "generateDialog"}
           /\ args[1].componentType \notin DOMAIN componentTypes
        \/ /\ result[1].fn \in {"generateSlingModel", "generateDialog", "getDialogFieldType"}
           /\ args[1].fieldType \notin DOMAIN fieldTypeMap) =>
        result[1].threw

\* C10: generateComponentCode on form data that has no entry for a required
\* field of the type fails.
C10_MissingRequiredFieldFails ==
    (/\ result # None
     /\ result[1].fn = "generateComponentCode"
     /\ \E n \in RequiredFieldNames(componentTypes[args[1].componentType]) :
           n \notin DOMAIN args[1].formData.fields) =>
        result[1].threw

\* the markup artifact of the held artifact map
Markup == generatedCode[1][1].text
\* a request for a button-component whose text field holds "Buy Now", rendered
\* with the markup artifact enabled
ButtonBuyNowRendered ==
    /\ Rendered
    /\ componentType = "button-component"
    /\ Request.toggles["generateHTL"]
    /\ Request.fields[s_text] = BuyNow

Called(fn) == result # None /\ result[1].fn = fn /\ args[1].variant = "none"

KebabWellFormed(k) ==
    /\ \A i \in 1..Len(k) : k[i] \in LowerChars \cup DigitChars \cup {"-"}
    /\ k # <<>> => (k[1] # "-" /\ k[Len(k)] # "-")
    /\ \A i \in 1..(Len(k) - 1) : ~(k[i] = "-" /\ k[i + 1] = "-")

\* C12: for every display name the validation accepts, the kebabCase of
\* createNamingConventions, and what the generator's getKebabCaseName returns,
\* has only characters of [a-z0-9-], no '-' at either end and no two '-' in
\* a row.
C12_KebabCaseWellFormed ==
    ((Called("createNamingConventions") \/ Called("getKebabCaseName"))
        /\ TestComponentName(args[1].str)) =>
        KebabWellFormed(Returns("kebabCase"))

\* an accepted name with a run of spaces, capitals and a trailing space
C12_Witness ==
    /\ Called("createNamingConventions")
    /\ args[1].str = OddName
    /\ TestComponentName(OddName)
    /\ Returns("kebabCase") = <<"m","y","-","c","a","r","d","-","2">>

\* C13: the kebabCase of the kebabCase of any string is that kebabCase.
C13_KebabCaseIdempotent ==
    (result # None /\ args[1].variant = "kebabCase") => Returns("kebabCase") = args[1].str

\* a kebabCase with a '-' in it was given to createNamingConventions again
C13_Witness ==
    /\ result # None
    /\ args[1].variant = "kebabCase"
    /\ args[1].str = <<"a","-","b">>

\* C14: each of the five variants, derived again from its own value, is
\* that value.
C14_EveryVariantIdempotent ==
    (result # None /\ args[1].variant # "none") => Returns(args[1].variant) = args[1].str

\* the length of the longest prefix of s made of alphanumerics
LeadingRun(s) ==
    CHOOSE n \in 0..Len(s) :
        /\ \A i \in 1..n : s[i] \in AlnumChars
        /\ n = Len(s) \/ s[n + 1] \notin AlnumChars

\* the maximal runs of alphanumerics of s, in order
RECURSIVE Segments(_)
Segments(s) ==
    IF s = <<>> THEN <<>>
    ELSE IF Head(s) \notin AlnumChars THEN Segments(Tail(s))
    ELSE <<SubSeq(s, 1, LeadingRun(s))>> \o Segments(SubSeq(s, LeadingRun(s) + 1, Len(s)))

CamelCaseDefinition(s) ==
    LET segments == Segments(s)
    IN  Flatten([i \in 1..Len(segments) |->
                   IF i = 1 THEN toLowerCase(segments[i])
                   ELSE Capitalized(toLowerCase(segments[i]))])

ReplacedChar(s, a, b) == [i \in 1..Len(s) |-> IF s[i] = a THEN b ELSE s[i]]

\* C15: for every string, camelCase is the string's alphanumeric segments,
\* the first in lower case and the later ones title-cased, concatenated;
\* pascalCase is camelCase with its first character in upper case; snakeCase
\* is kebabCase with '_' for '-'; constantCase is snakeCase in upper case.
C15_VariantsEqualTheirDefinitions ==
    Called("createNamingConventions") =>
        /\ Returns("camelCase") = CamelCaseDefinition(args[1].str)
        /\ Returns("pascalCase") = IF Returns("camelCase") = <<>> THEN <<>>
                                   ELSE Capitalized(Returns("camelCase"))
        /\ Returns("snakeCase") = ReplacedChar(Returns("kebabCase"), "-", "_")
        /\ Returns("constantCase") = toUpperCase(Returns("snakeCase"))

C15_Witness ==
    /\ Called("createNamingConventions")
    /\ args[1].str = HeroBanner
    /\ Returns("camelCase") = <<"h","e","r","o","B","a","n","n","e","r">>
    /\ Returns("constantCase") = <<"H","E","R","O","_","B","A","N","N","E","R">>

NoAlnum(s) == \A i \in 1..Len(s) : s[i] \notin AlnumChars

\* C16: on a string with no alphanumeric character, the empty string
\* included, createNamingConventions returns, and the five variants are
\* empty.
C16_NoAlphanumericGivesEmptyVariants ==
    (Called("createNamingConventions") /\ NoAlnum(args[1].str)) =>
        /\ ~result[1].threw
        /\ \A v \in Variants : Returns(v) = <<>>

\* a string of three different separators
C16_Witness ==
    /\ Called("createNamingConventions")
    /\ args[1].str = <<"-", "_", " ">>
    /\ Returns("original") = <<"-", "_", " ">>

\* the fields of a registered type as generateComponentCode hands them to
\* the renderers
FieldsOf(componentType_) == ComponentFields(RegisteredTypes[componentType_], NoCall.formData)

\* the position of the first token of text that is tok
IndexOf(text, tok) ==
    CHOOSE i \in 1..Len(text) : text[i] = tok /\ \A j \in 1..(i - 1) : text[j] # tok

Occurrences(text, tok) == Cardinality({i \in 1..Len(text) : text[i] = tok})

\* what stands between the opening of the properties tab and the opening of
\* the accessibility tab
PropertiesItems(text) ==
    SubSeq(text, IndexOf(text, Tok("tab", <<"properties">>)) + 1,
                 IndexOf(text, Tok("tab", <<"accessibility">>)) - 1)

\* the widget descriptors of a run of dialog tokens: each widget's name
\* without its capitals, its kind, its required marker and its options
Descriptors(text) ==
    LET kept == SelectSeq(text, LAMBDA t : t.k \in {"widget", "resourceType", "required", "option"})
    IN  [i \in 1..Len(kept) |->
            IF kept[i].k = "widget" THEN Tok("widget", toLowerCase(kept[i].v)) ELSE kept[i]]

WidgetKindTable ==
    [text |-> "textfield", textarea |-> "textarea", richtext |-> "rte", select |-> "select",
     checkbox |-> "checkbox", image |-> "fileupload", pathfield |-> "pathfield",
     colorfield |-> "colorfield"]

ExpectedDescriptor(field) ==
       << Tok("widget", toLowerCase(field.name)),
          Tok("resourceType", <<WidgetKindTable[field.type]>>) >>
    \o (IF field.required THEN <<Tok("required", <<"true">>)>> ELSE <<>>)
    \o (IF field.type = "select"
        THEN [i \in 1..Len(field.options) |-> Tok("option", field.options[i])]
        ELSE <<>>)

\* C17: the dialog of a registered type holds, for its fields in their
\* order, one widget each, of the kind the table gives for the field's kind,
\* marked required exactly when the field is, a select with the declared
\* options in their order, and no other widget before the accessibility tab.
C17_OneWidgetPerFieldByTable ==
    (/\ Called("generateDialog")
     /\ ~result[1].threw
     /\ \A i \in 1..Len(args[1].fields) : args[1].fields[i].type \in DOMAIN WidgetKindTable) =>
        Descriptors(PropertiesItems(result[1].text))
            = Flatten([i \in 1..Len(args[1].fields) |-> ExpectedDescriptor(args[1].fields[i])])

\* the dialog of button-component: a required text, a path and two selects
\* of three options
C17_Witness ==
    /\ Called("generateDialog")
    /\ ~result[1].threw
    /\ args[1].componentType = "button-component"
    /\ args[1].fields = FieldsOf("button-component")
    /\ Len(SelectSeq(PropertiesItems(result[1].text), LAMBDA t : t.k = "option")) = 6

\* C18: whatever the type and the field list, the empty list included, the
\* dialog has one accessibility tab, it is the last thing of the dialog, it
\* comes after every field's widget, and it holds the fields ./id and
\* ./ariaLabel.
C18_AccessibilityTabClosesDialog ==
    (Called("generateDialog") /\ ~result[1].threw) =>
        LET text == result[1].text
            at   == IndexOf(text, Tok("tab", <<"accessibility">>))
            tab  == SubSeq(text, at, Len(text))
        IN  /\ Occurrences(text, Tok("tab", <<"accessibility">>)) = 1
            /\ Occurrences(text, Tok("name", <<"./id">>)) = 1
            /\ Occurrences(text, Tok("name", <<"./ariaLabel">>)) = 1
            /\ SelectSeq(tab, LAMBDA t : t.k = "name")
                   = <<Tok("name", <<"./id">>), Tok("name", <<"./ariaLabel">>)>>
            /\ Len(SelectSeq(tab, LAMBDA t : t.k = "widget")) = 2
            /\ Len(SelectSeq(SubSeq(text, 1, at - 1), LAMBDA t : t.k = "endWidget"))
                   = Len(args[1].fields)

\* the dialog of a type rendered with no field at all
C18_Witness ==
    /\ Called("generateDialog")
    /\ ~result[1].threw
    /\ args[1].fields = <<>>
    /\ Tok("name", <<"./ariaLabel">>) = result[1].text[Len(result[1].text)]

PascalCaseDefinition(s) ==
    IF CamelCaseDefinition(s) = <<>> THEN <<>> ELSE Capitalized(CamelCaseDefinition(s))

AccessorName(field) == s_get \o PascalCaseDefinition(field.name)

\* C19: the model class of a registered type declares, for its fields in
\* their order, one method each named get + the pascalCase of the field's
\* name; the method returns the member bound to the field, and when that is
\* blank the declared default for a select that declares one, and nothing for
\* a richtext or an image.
C19_OneAccessorPerField ==
    (Called("generateSlingModel") /\ ~result[1].threw) =>
        LET text   == result[1].text
            fields == args[1].fields
            names  == {AccessorName(fields[i]) : i \in 1..Len(fields)}
        IN  /\ SelectSeq(text, LAMBDA t : t.k = "method" /\ t.v \in names)
                   = [i \in 1..Len(fields) |-> Tok("method", AccessorName(fields[i]))]
            /\ \A i \in 1..Len(fields) :
                   LET at == IndexOf(text, Tok("method", AccessorName(fields[i])))
                   IN  /\ text[at + 1].k = "return"
                       /\ SelectSeq(text, LAMBDA t : t.k = "member")[i].v = text[at + 1].v
                       /\ (fields[i].type = "select" /\ fields[i].default # <<>>) =>
                              text[at + 2] = Tok("orDefault", fields[i].default)
                       /\ fields[i].type \in {"richtext", "image"} =>
                              text[at + 2] = Lit("null")

\* the model class of button-component: getText, getUrl and the two selects
\* getStyle and getSize that fall back to "primary" and "medium"
C19_Witness ==
    /\ Called("generateSlingModel")
    /\ ~result[1].threw
    /\ args[1].componentType = "button-component"
    /\ args[1].fields = FieldsOf("button-component")
    /\ \E i \in 1..Len(result[1].text) :
          /\ result[1].text[i] = Tok("method", s_get \o <<"S","t","y","l","e">>)
          /\ result[1].text[i + 2] = Tok("orDefault", s_primary)

\* C20: the markup of a registered type references every field the type
\* declares, the fields being met in the order of their declaration.
C20_MarkupEmitsEveryField ==
    (/\ Called("generateHTL")
     /\ ~result[1].threw
     /\ args[1].componentType \in DOMAIN RegisteredTypes
     /\ args[1].fields = FieldsOf(args[1].componentType)) =>
        LET text   == result[1].text
            fields == args[1].fields
        IN  /\ \A i \in 1..Len(fields) : Occurrences(text, Tok("ref", fields[i].name)) > 0
            /\ \A i, j \in 1..Len(fields) :
                   i < j => IndexOf(text, Tok("ref", fields[i].name))
                               < IndexOf(text, Tok("ref", fields[j].name))

\* the cells of the field table of a docs artifact, row after row
TableCells(text) ==
    SelectSeq(text, LAMBDA t : t.k \in {"rowName", "rowType", "rowRequired", "rowLabel"})

ExpectedRow(field) ==
    << Tok("rowName", field.name), Tok("rowType", <<field.type>>),
       Tok("rowRequired", IF field.required THEN <<"Yes">> ELSE <<"No">>),
       Tok("rowLabel", <<field.label>>) >>

\* C21: the field table of the docs artifact has one row per field of the
\* list it was rendered for, row i giving the name, the kind, Yes or No for
\* required and the label of field i.
C21_OneTableRowPerField ==
    (Called("generateReadme") /\ ~result[1].threw) =>
        /\ Len(TableCells(result[1].text)) = 4 * Len(args[1].fields)
        /\ TableCells(result[1].text)
               = Flatten([i \in 1..Len(args[1].fields) |-> ExpectedRow(args[1].fields[i])])

\* the docs of button-component: four rows, the first required, the second not
C21_Witness ==
    /\ Called("generateReadme")
    /\ ~result[1].threw
    /\ args[1].fields = FieldsOf("button-component")
    /\ Len(TableCells(result[1].text)) = 16
    /\ TableCells(result[1].text)[3] = Tok("rowRequired", <<"Yes">>)
    /\ TableCells(result[1].text)[7] = Tok("rowRequired", <<"No">>)

\* C22: when rendering throws inside onGenerate, an error toast is shown,
\* the loading indicator is hidden, and the form, currentState.step and
\* currentState.generatedCode are what they were.
C22_RenderFailureLeavesStateAlone ==
    [][(last'.rendered /\ last'.threw) =>
        /\ \E i \in 1..Len(last'.toasts) :
              last'.toasts[i].type = "error" /\ last'.toasts[i].title = "Generation Failed"
        /\ ~loading'
        /\ form' = form
        /\ step' = step
        /\ generatedCode' = generatedCode]_vars

\* a generation that threw while an earlier artifact map was held
C22_Witness ==
    /\ last.op = "generate"
    /\ last.rendered
    /\ last.threw
    /\ generatedCode = Some(EarlierCode)

\* C23: whatever was displayed, selected, typed, previewed or generated,
\* AEMTemplates.componentTypes is the registry the page was loaded with.
C23_RegistryNeverMutated == componentTypes = RegisteredTypes

\* a form change was taken and a rendering made, with the registry read by both
C23_Witness ==
    /\ formData # None
    /\ Rendered
    /\ generatedCode # None
    /\ componentTypes = RegisteredTypes

\* C24: once the user has typed a project name, no form-change event
\* replaces what the projectName input holds.
C24_TypedProjectNameIsKept ==
    [][(edits > 0 /\ form # None /\ form' # None) =>
          form'[1].projectName = form[1].projectName]_vars

\* C25: a switch to the component-generator section made after the generator
\* was initialized leaves currentState.step and currentState.componentType
\* (and with it componentConfig) as they are.
C25_SecondSwitchKeepsState ==
    [][last'.op = "switchSection" =>
          (step' = step /\ componentType' = componentType)]_vars

C27_StaleFormChangeHasNoEffect ==
    [][(form # None /\ detached' # detached /\ detached' \subseteq detached) =>
          (form' = form /\ formData' = formData)]_vars

\* the invocations of func that the timer of a call made
InvocationsOf(c) == {i \in 1..Len(invocations) : invocations[i].call = c}
TimerPending(c) == \E t \in timers : t.id = c

\* every invocation has the arguments of the latest call, which no newer call
\* has followed, and comes no earlier than wait after it
InvokedAfterLastCall ==
    \A i \in 1..Len(invocations) :
        LET inv == invocations[i] IN
        /\ inv.call = inv.ncalls
        /\ inv.args = calls[inv.call].args
        /\ inv.at >= calls[inv.call].at + Wait

\* a call ends its burst once its timer is gone and it is the last call or the
\* call after it came as late as ends(c) says: func is invoked once for the
\* call that ends a burst and never for another call
OncePerBurst(ends(_)) ==
    \A c \in 1..Len(calls) :
        Cardinality(InvocationsOf(c)) =
            IF ~TimerPending(c) /\ (c = Len(calls) \/ ends(c)) THEN 1 ELSE 0

NextAfterWait(c) == calls[c + 1].at >= calls[c].at + Wait
NextAfterTimer(c) == ~calls[c + 1].pending

\* C28 as stated: without immediate, every burst of calls that each arrive
\* less than wait after the previous one gives exactly one invocation of func,
\* after the burst's last call and with its arguments; at most one timer is
\* pending and nothing is invoked while a newer call is pending.
C28_OneInvocationPerTimedBurst ==
    ~immediate =>
        /\ Cardinality(timers) <= 1
        /\ InvokedAfterLastCall
        /\ OncePerBurst(NextAfterWait)

\* C28, amended: the burst ends when its timer runs, which is wait after its
\* last call or later; a call that arrives before the timer has run joins the
\* burst, and every call less than wait after the previous one does so.
C28_OneInvocationPerBurst ==
    ~immediate =>
        /\ Cardinality(timers) <= 1
        /\ InvokedAfterLastCall
        /\ OncePerBurst(NextAfterTimer)
        /\ \A c \in 1..(Len(calls) - 1) : ~NextAfterWait(c) => calls[c + 1].pending

\* a burst of two calls with different arguments, the second after the first
\* and less than wait after it, then one invocation
C28_Witness ==
    /\ ~immediate
    /\ Len(calls) = 2
    /\ calls[1].args # calls[2].args
    /\ calls[1].at < calls[2].at /\ ~NextAfterWait(1)
    /\ Len(invocations) = 1 /\ invocations[1].call = 2
    /\ timers = {}

\* a call that came wait after the previous one, before the late timer ran
C28_LateTimer ==
    /\ ~immediate
    /\ Len(calls) >= 2
    /\ NextAfterWait(1) /\ calls[2].pending

\* the values under a key in what the latest call returned, in order
ValuesOf(key) ==
    LET toks == SelectSeq(result[1].text, LAMBDA t : t.k = key)
    IN  [i \in 1..Len(toks) |-> toks[i].v]

\* the key of createNamingConventions' object that a helper computes
VariantOf(helper) ==
    CASE helper = "getKebabCaseName"  -> "kebabCase"
      [] helper = "getPascalCaseName" -> "pascalCase"
      [] helper = "getCamelCaseName"  -> "camelCase"

\* C29: on every string each of the generator's name helpers returns what
\* createNamingConventions returns under the helper's key; the file names of
\* the artifact map are therefore the five the docs artifact lists, in the
\* same order, and the logic artifact's file is named after the class it
\* declares.
C29_HelpersAgreeWithNormalizer ==
    /\ \A helper \in NameHelpers :
          Called(helper) =>
              Returns(VariantOf(helper))
                  = createNamingConventions(args[1].str)[VariantOf(helper)]
    /\ (Called("generateComponentCode") /\ ~result[1].threw) =>
          LET files == ValuesOf("file") IN
          /\ Len(files) = 10
          /\ SubSeq(files, 1, 5) = SubSeq(files, 6, 10)
          /\ Len(ValuesOf("class")) = 1
          /\ files[2] = ValuesOf("class")[1] \o <<"Model.java">>

\* the artifacts of a component whose name is typed in mixed case with runs
\* of blanks have been rendered: the helpers named the files of the map, the
\* normalizer those of the docs
C29_Witness ==
    /\ Called("generateComponentCode")
    /\ args[1].str = OddName
    /\ ValuesOf("file")[2] = <<"M","y","C","a","r","d","2">> \o <<"Model.java">>
    /\ ValuesOf("file")[6] = <<"m","y","-","c","a","r","d","-","2">> \o <<".html">>

\* validateGenerationData accepts the form data of a component so named, its
\* package and project being the form's defaults
Accepted(name) == validateGenerationData([NoCall.formData EXCEPT !.componentName = name]).ok

\* C30: a display name that validateGenerationData accepts has five non-empty
\* naming variants, its pascalCase starting with an upper-case letter and its
\* kebabCase with a lower-case letter, and no file generated for it has an
\* empty stem.
C30_AcceptedNamesHaveNonEmptyVariants ==
    /\ (Called("createNamingConventions") /\ Accepted(args[1].str)) =>
          /\ \A v \in Variants : Returns(v) # <<>>
          /\ Returns("pascalCase")[1] \in UpperChars
          /\ Returns("kebabCase")[1] \in LowerChars
    /\ (Called("generateComponentCode") /\ Accepted(args[1].str)) =>
          \A i \in 1..Len(ValuesOf("file")) :
              ValuesOf("file")[i] \notin {<<".html">>, <<"Model.java">>, <<".scss">>}

\* the variants of an accepted name that starts in lower case and has blanks
\* and a digit in it
C30_Witness ==
    /\ Called("createNamingConventions")
    /\ args[1].str = OddName
    /\ Accepted(OddName)
    /\ Returns("pascalCase") = <<"M","y","C","a","r","d","2">>
    /\ Returns("constantCase") = <<"M","Y","_","C","A","R","D","_","2">>

====
